---- MODULE Spec2Model ----
(***************************************************************************)
(* Audio transcription processor: the batch pipeline (process_videos /     *)
(* process_audios of src/app_standalone.py) and the Streamlit request      *)
(* handlers (src/main.py with the app/ package, and src/app.py).           *)
(*                                                                         *)
(* Strings are sequences of one-character strings, so that joining,        *)
(* stripping and counting newlines are computed, not assumed.  The one     *)
(* exception is a fixed directory prefix, which is kept as a single        *)
(* element because every path of that directory starts with it.            *)
(***************************************************************************)
EXTENDS Integers, Sequences, FiniteSets, TLC

VARIABLES
    pc,                     \* position of the running entry point
    disk,                   \* set of paths of the files and directories that exist
    calls,                  \* adapters invoked for the current unit / request, in order,
                            \* each with its result
    diarization_segments,   \* the turns the diarizer returned for the current unit
    i,                      \* index (0-based) of the turn being processed
    segment_file,           \* path of the current per-turn artifact
    kind,                   \* "videos" (process_videos) or "audios" (process_audios)
    batch,                  \* the configured sources with their time ranges
    si,                     \* 1-based index of the current source
    ri,                     \* 1-based index of the current time range of the source
    unit,                   \* number of the current unit in submission order
    raw_file,               \* path of the raw download of the current unit
    audio_file,             \* path of the windowed artifact of the current unit
    speaker_transcriptions, \* "<speaker>: <text>" strings of the current unit
    transcriptions,         \* entries {file, transcript} accumulated by the batch
    outcome,                \* per finished unit: "ok", "failed" (the except branch
                            \* logged it) or "skipped" (its source file was missing)
    indexFile,              \* content of list.txt
    writes,                 \* number of times list.txt was written
    variant,                \* "modular" (main.py with app/) or "monolithic" (app.py)
    request,                \* what the user entered before pressing the button
    ntemp,                  \* number of directories tempfile.mkdtemp() has made
    file_path,              \* the file process_audio is given
    temp_dir,               \* the working directory of process_audio
    output_file,            \* where the YouTube audio is downloaded to
    yt_audio,               \* what download_youtube_audio returned
    trimmed_file,           \* the windowed artifact of the request
    ui_transcriptions,      \* the segments process_audio has collected
    ui_result,              \* <<>> until process_audio returns, then <<the list it returned>>
    st_errors,              \* the st.error messages shown, in order
    audio_files,            \* legacy main(): the windowed artifacts it collected
    file_and_transcripts,   \* legacy transcribe_audio_files: the "file|text" lines
    time_in,                \* time-code utilities: the argument they are applied to
    time_text,              \* the display string at hand (given, or formatted)
    time_valid,             \* <<>> or <<what validate_time_format returned>>
    time_secs,              \* <<>> or <<what hms_to_seconds returned or raised>>
    time_back               \* the parsed value formatted again

batchVars == <<kind, batch, si, ri, unit, raw_file, audio_file,
               speaker_transcriptions, transcriptions, outcome,
               indexFile, writes>>

sharedVars == <<pc, disk, calls, diarization_segments, i, segment_file>>

uiVars == <<variant, request, ntemp, file_path, temp_dir, output_file, yt_audio,
            trimmed_file, ui_transcriptions, ui_result, st_errors>>

legacyVars == <<audio_files, file_and_transcripts>>

timeVars == <<time_in, time_text, time_valid, time_secs, time_back>>

vars == <<pc, disk, calls, diarization_segments, i, segment_file,
          kind, batch, si, ri, unit, raw_file, audio_file,
          speaker_transcriptions, transcriptions, outcome,
          indexFile, writes,
          variant, request, ntemp, file_path, temp_dir, output_file, yt_audio,
          trimmed_file, ui_transcriptions, ui_result, st_errors,
          audio_files, file_and_transcripts,
          time_in, time_text, time_valid, time_secs, time_back>>

(***************************************************************************)
(* Bounds of the model.                                                    *)
(***************************************************************************)
MaxUnits == 3

MaxBatchTurns == 2

MaxTurns == 3

\* durations are counted in ticks, Resolution ticks to the millisecond
Resolution == 4

(***************************************************************************)
(* String helpers.                                                         *)
(***************************************************************************)
None == <<"<None>">>

NoFile == <<"<no file>">>

IsWhitespace(c) == c \in {" ", "\n", "\t"}

RECURSIVE LStrip(_)
LStrip(s) ==
    IF s # <<>> /\ IsWhitespace(Head(s)) THEN LStrip(Tail(s)) ELSE s

RECURSIVE RStrip(_)
RStrip(s) ==
    IF s # <<>> /\ IsWhitespace(s[Len(s)])
    THEN RStrip(SubSeq(s, 1, Len(s) - 1))
    ELSE s

Strip(s) == RStrip(LStrip(s))

RECURSIVE Join(_, _)
Join(sep, strs) ==
    IF strs = <<>> THEN <<>>
    ELSE IF Len(strs) = 1 THEN strs[1]
    ELSE strs[1] \o sep \o Join(sep, Tail(strs))

RECURSIVE Concat(_)
Concat(strs) ==
    IF strs = <<>> THEN <<>> ELSE Head(strs) \o Concat(Tail(strs))

SeqsUpTo(S, n) == UNION {[1..k -> S] : k \in 0..n}

(***************************************************************************)
(* Inputs of the model: time strings, turns, transcriber outputs.          *)
(***************************************************************************)
T_00_00_10 == <<"0", "0", ":", "0", "0", ":", "1", "0">>

T_00_00_20 == <<"0", "0", ":", "0", "0", ":", "2", "0">>

T_00_01_00 == <<"0", "0", ":", "0", "1", ":", "0", "0">>

T_ab_cd == <<"a", "b", ":", "c", "d">>

Digit(n) == <<"0", "1", "2", "3", "4", "5", "6", "7", "8", "9">>[n + 1]

\* str(n) for the small non-negative integers the model formats
Str(n) == IF n < 10 THEN <<Digit(n)>> ELSE <<Digit(n \div 10), Digit(n % 10)>>

TurnA == [start |-> 1, end |-> 3, speaker |-> <<"A">>]

TurnB == [start |-> 5, end |-> 8, speaker |-> <<"B">>]

TurnQuiet == [start |-> 8, end |-> 9, speaker |-> <<"A">>]

Turns == {TurnA, TurnB, TurnQuiet}

\* the turns the diarizer can find in the window of the u-th unit of a batch:
\* two speakers in the first, silent turns in the second, one speaker after it
TurnsIn(u) ==
    IF u = 1 THEN {TurnA, TurnB}
    ELSE IF u = 2 THEN {TurnQuiet}
    ELSE {TurnB}

\* result["text"] of the Whisper model for the audio of a turn, before .strip()
WhisperText(turn) ==
    IF turn = TurnA THEN <<" ", "h", "e", "l", "l", "o">>
    ELSE IF turn = TurnB THEN <<"w", "o", "r", "l", "d", "\n">>
    ELSE <<" ", " ">>

Outcomes == {"ok", "fail"}

\* an entry of `calls`: the adapter invoked and how the invocation ended
Call(op, res) == [op |-> op, res |-> res]

(***************************************************************************)
(* Batch configuration (AppConfig, VideoConfig, LocalAudioConfig,          *)
(* TimeRange).                                                             *)
(***************************************************************************)
audio_output_dir == <<"extracted_audio/">>

audio_format == <<"m", "4", "a">>

\* a source reference: a URL for process_videos, a local path for process_audios
SourceRef(k) == <<"s", "r", "c", Digit(k)>>

\* the TimeRange of the u-th unit of a batch; unit `bad` carries a malformed start
TimeRangeOf(u, bad) ==
    [start_time |-> IF u = bad THEN T_ab_cd
                    ELSE IF u % 2 = 1 THEN T_00_00_10 ELSE T_00_01_00,
     end_time   |-> IF u % 2 = 1 THEN T_00_00_20 ELSE None,
     id         |-> Str(u)]

RECURSIVE SumSeq(_)
SumSeq(s) == IF s = <<>> THEN 0 ELSE Head(s) + SumSeq(Tail(s))

\* the numbers of time ranges of the sources of a batch of MaxUnits units: a
\* source with one range followed by a source with the other ranges
Shape == <<1, MaxUnits - 1>>

UnitsBefore(shape, k) == SumSeq(SubSeq(shape, 1, k - 1))

MkBatch(shape, bad, missing) ==
    [k \in 1..Len(shape) |->
        [ref    |-> SourceRef(k),
         exists |-> k # missing,
         time_ranges |->
            [j \in 1..shape[k] |-> TimeRangeOf(UnitsBefore(shape, k) + j, bad)]]]

\* the batches: at most one unit with a malformed start time, at most one
\* source whose file is missing
Batches ==
    {MkBatch(Shape, bad, missing) : bad \in 0..1, missing \in 0..Len(Shape)}

NumUnits(b) == SumSeq([k \in 1..Len(b) |-> Len(b[k].time_ranges)])

\* the units of a batch in submission order: source order, then range order
RECURSIVE UnitsOf(_)
UnitsOf(b) ==
    IF b = <<>> THEN <<>>
    ELSE [j \in 1..Len(b[1].time_ranges) |->
            [source |-> b[1], time_range |-> b[1].time_ranges[j]]]
         \o UnitsOf(Tail(b))

(***************************************************************************)
(* Paths of AudioProcessor (output_path / f"...").                         *)
(***************************************************************************)
RawPath(file_id) == audio_output_dir \o file_id \o <<"_", "r", "a", "w", ".">> \o audio_format

TrimPath(file_id) == audio_output_dir \o file_id \o <<".", "w", "a", "v">>

CompoundIdJoined(range_id, n) == range_id \o Str(n)

CompoundId(range_id, n) == range_id \o <<"_">> \o Str(n)

\* os.path.relpath(path, start=config.transcription_output_dir)
RelPath(path) == <<"../">> \o path

(***************************************************************************)
(* The external tools.  A tool that is given an input that does not exist  *)
(* fails; otherwise it succeeds or fails.                                  *)
(***************************************************************************)
ToolOutcomes(input) == IF input \in disk THEN Outcomes ELSE {"fail"}

\* the transcript of one turn: transcriber.transcribe_file(...) = text.strip()
Transcript(turn) == Strip(WhisperText(turn))

\* f"{segment['speaker']}: {transcript_segment}"
SpeakerLine(turn, transcript_segment) == turn.speaker \o <<":", " ">> \o transcript_segment

\* a variant that joins as the download text of the page does, with a blank line
CombinedWithBlankLines(lines) == Join(<<"\n", "\n">>, lines)

\* "\n".join(speaker_transcriptions)
CombinedTranscript(lines) == Join(<<"\n">>, lines)

\* f"{entry['file']}|{entry['transcript']}\n"
IndexLine(entry) == entry.file \o <<"|">> \o entry.transcript \o <<"\n">>

\* the content write_transcriptions gives list.txt
IndexContent(entries) == Concat([k \in 1..Len(entries) |-> IndexLine(entries[k])])

\* a variant that stores nothing for a unit without text
StoreResultWithText(entries, entry) ==
    IF entry.transcript = <<>> THEN entries ELSE Append(entries, entry)

\* a variant that puts the newest entry first
StoreResultFirst(entries, entry) == <<entry>> \o entries

\* transcriptions.append({...})
StoreResult(entries, entry) == Append(entries, entry)

(***************************************************************************)
(* validate_time_format: re.match of                                       *)
(*   ^([0-9]{1,2}:)?[0-5]?[0-9]:[0-5][0-9](\.[0-9]{1,3})?$                 *)
(***************************************************************************)
IsDigit(c) == c \in {"0", "1", "2", "3", "4", "5", "6", "7", "8", "9"}

IsDigit05(c) == c \in {"0", "1", "2", "3", "4", "5"}

AllDigits(s) == \A k \in 1..Len(s) : IsDigit(s[k])

\* ([0-9]{1,2}:)?
MatchHours(s) ==
    \/ s = <<>>
    \/ Len(s) \in 2..3 /\ s[Len(s)] = ":" /\ AllDigits(SubSeq(s, 1, Len(s) - 1))

\* a variant without the limit on the first digit: [0-9]?[0-9]:
MatchMinutesAnyDigits(s) ==
    /\ Len(s) \in 2..3
    /\ s[Len(s)] = ":"
    /\ AllDigits(SubSeq(s, 1, Len(s) - 1))

\* [0-5]?[0-9]:
MatchMinutes(s) ==
    \/ Len(s) = 2 /\ IsDigit(s[1]) /\ s[2] = ":"
    \/ Len(s) = 3 /\ IsDigit05(s[1]) /\ IsDigit(s[2]) /\ s[3] = ":"

\* [0-5][0-9]
MatchSeconds(s) == Len(s) = 2 /\ IsDigit05(s[1]) /\ IsDigit(s[2])

\* (\.[0-9]{1,3})?
MatchFraction(s) ==
    \/ s = <<>>
    \/ Len(s) \in 2..4 /\ s[1] = "." /\ AllDigits(SubSeq(s, 2, Len(s)))

MatchPattern(s) ==
    \E a \in 0..Len(s) : \E b \in a..Len(s) : \E c \in b..Len(s) :
        /\ MatchHours(SubSeq(s, 1, a))
        /\ MatchMinutes(SubSeq(s, a + 1, b))
        /\ MatchSeconds(SubSeq(s, b + 1, c))
        /\ MatchFraction(SubSeq(s, c + 1, Len(s)))

\* a variant that only looks for a colon
ValidateLoose(time_str) == \E k \in 1..Len(time_str) : time_str[k] = ":"

\* `$` also matches just before a trailing newline
validate_time_format(time_str) ==
    \/ MatchPattern(time_str)
    \/ /\ time_str # <<>>
       /\ time_str[Len(time_str)] = "\n"
       /\ MatchPattern(SubSeq(time_str, 1, Len(time_str) - 1))

StartsWith(s, prefix) ==
    Len(s) >= Len(prefix) /\ SubSeq(s, 1, Len(prefix)) = prefix

\* Python truth value of an optional string: None and "" are false
Truthy(s) == s # None /\ s # <<>>

(***************************************************************************)
(* seconds_to_hms and hms_to_seconds.  A float number of seconds is an     *)
(* integer number of ticks.                                                *)
(***************************************************************************)
TicksPerSecond == 1000 * Resolution

\* str(n) of a non-negative integer
RECURSIVE DecimalOf(_)
DecimalOf(n) ==
    IF n < 10 THEN <<Digit(n)>> ELSE DecimalOf(n \div 10) \o <<Digit(n % 10)>>

\* f"{n:02d}"
Pad2(n) == IF n < 10 THEN <<"0">> \o DecimalOf(n) ELSE DecimalOf(n)

\* the three decimals of f"{x:.3f}"
Pad3(n) ==
    IF n < 10 THEN <<"0", "0">> \o DecimalOf(n)
    ELSE IF n < 100 THEN <<"0">> \o DecimalOf(n)
    ELSE DecimalOf(n)

\* the milliseconds f"{secs:.3f}" can print for a value of secs ticks: the
\* nearest millisecond; a decimal tie is not a tie of the binary double, which
\* lies just above or just below it, so either neighbour can be printed
RoundedMillis(secs) ==
    LET down == secs \div Resolution
        rest == secs % Resolution
    IN  IF 2 * rest < Resolution THEN {down}
        ELSE IF 2 * rest > Resolution THEN {down + 1}
        ELSE {down, down + 1}

\* f"{secs:06.3f}" for a number of milliseconds
FormatSecs(millis) == Pad2(millis \div 1000) \o <<".">> \o Pad3(millis % 1000)

\* the strings seconds_to_hms can return for a duration of `seconds` ticks
seconds_to_hms(seconds) ==
    LET hours   == seconds \div (3600 * TicksPerSecond)
        minutes == (seconds % (3600 * TicksPerSecond)) \div (60 * TicksPerSecond)
        secs    == seconds - (hours * 3600 + minutes * 60) * TicksPerSecond
    IN  {Pad2(hours) \o <<":">> \o Pad2(minutes) \o <<":">> \o FormatSecs(millis) :
            millis \in RoundedMillis(secs)}

\* str.split(sep) for a one-character separator
RECURSIVE Split(_, _)
Split(text, sep) ==
    IF \A k \in 1..Len(text) : text[k] # sep THEN <<text>>
    ELSE LET k == CHOOSE j \in 1..Len(text) :
                      text[j] = sep /\ \A m \in 1..(j - 1) : text[m] # sep
         IN  <<SubSeq(text, 1, k - 1)>> \o Split(SubSeq(text, k + 1, Len(text)), sep)

\* the value of a string of decimal digits
RECURSIVE DigitsValue(_)
DigitsValue(digits) ==
    IF digits = <<>> THEN 0
    ELSE 10 * DigitsValue(SubSeq(digits, 1, Len(digits) - 1))
         + (CHOOSE d \in 0..9 : Digit(d) = digits[Len(digits)])

RECURSIVE Pow10(_)
Pow10(n) == IF n = 0 THEN 1 ELSE 10 * Pow10(n - 1)

\* int(text) accepts surrounding whitespace and a sign before the digits
IntBody(text) ==
    IF Strip(text) # <<>> /\ Head(Strip(text)) \in {"+", "-"}
    THEN Tail(Strip(text)) ELSE Strip(text)

IntParses(text) == IntBody(text) # <<>> /\ AllDigits(IntBody(text))

IntOf(text) ==
    IF Strip(text) # <<>> /\ Head(Strip(text)) = "-"
    THEN 0 - DigitsValue(IntBody(text)) ELSE DigitsValue(IntBody(text))

\* float(f"0.{ms_part}") accepts digits (or none) and trailing whitespace
FractionParses(ms_part) == AllDigits(RStrip(ms_part))

\* its value in ticks (exact for the up to three digits the model enters)
FractionTicks(ms_part) ==
    (DigitsValue(RStrip(ms_part)) * TicksPerSecond) \div Pow10(Len(RStrip(ms_part)))

ValueError == [error |-> "ValueError", seconds |-> 0]

Seconds(ticks) == [error |-> "none", seconds |-> ticks]

\* a variant that drops the fraction
HmsToSecondsWhole(hms) ==
    LET time_part == Split(hms, ".")[1]
        parts     == Split(time_part, ":")
    IN  IF \E k \in 1..Len(parts) : ~IntParses(parts[k]) THEN ValueError
        ELSE IF Len(parts) = 3
        THEN Seconds((IntOf(parts[1]) * 3600 + IntOf(parts[2]) * 60 + IntOf(parts[3]))
                     * TicksPerSecond)
        ELSE IF Len(parts) = 2
        THEN Seconds((IntOf(parts[1]) * 60 + IntOf(parts[2])) * TicksPerSecond)
        ELSE Seconds(IntOf(parts[1]) * TicksPerSecond)

\* hms_to_seconds: what it returns, or the ValueError it raises
hms_to_seconds(hms) ==
    LET dotted    == \E k \in 1..Len(hms) : hms[k] = "."
        pieces    == Split(hms, ".")
        time_part == IF dotted THEN pieces[1] ELSE hms
        ms        == IF dotted THEN FractionTicks(pieces[2]) ELSE 0
        parts     == Split(time_part, ":")
    IN  IF dotted /\ Len(pieces) # 2 THEN ValueError
        ELSE IF dotted /\ ~FractionParses(pieces[2]) THEN ValueError
        ELSE IF Len(parts) = 3
        THEN IF \E k \in 1..3 : ~IntParses(parts[k]) THEN ValueError
             ELSE Seconds((IntOf(parts[1]) * 3600 + IntOf(parts[2]) * 60
                           + IntOf(parts[3])) * TicksPerSecond + ms)
        ELSE IF Len(parts) = 2
        THEN IF \E k \in 1..2 : ~IntParses(parts[k]) THEN ValueError
             ELSE Seconds((IntOf(parts[1]) * 60 + IntOf(parts[2])) * TicksPerSecond + ms)
        ELSE IF ~IntParses(parts[1]) THEN ValueError
             ELSE Seconds(IntOf(parts[1]) * TicksPerSecond + ms)

\* the durations the utilities are applied to: around the turn of the second,
\* of the minute and of the hour, and beyond two-digit hours
Durations ==
    {((h * 3600 + m * 60 + sec) * 1000 + millis) * Resolution + sub :
        h \in {0, 1, 99, 100}, m \in {0, 59}, sec \in {0, 59},
        millis \in {0, 499, 999}, sub \in 0..(Resolution - 1)}

\* display strings of the shape [H[H]:]M[M]:SS[.f[f[f]]], with and without a
\* final newline
ShapedTexts ==
    {hh \o mm \o <<":">> \o ss \o ff \o nl :
        hh \in {<<>>, <<"0", ":">>, <<"1", ":">>, <<"1", "2", ":">>, <<"9", "9", ":">>},
        mm \in {<<"0">>, <<"7">>, <<"0", "7">>, <<"5", "9">>},
        ss \in {<<"0", "0">>, <<"0", "5">>, <<"5", "9">>},
        ff \in {<<>>, <<".", "5">>, <<".", "2", "5">>, <<".", "9", "9", "9">>,
                <<".", "0", "0", "0">>},
        nl \in {<<>>, <<"\n">>}}

\* other strings a caller can pass
OddTexts ==
    { <<>>,
      <<"1", ":", "2", ":", "3", ":", "4">>,
      T_ab_cd,
      <<"3", "0">>,
      <<"3", "0", ".", "5">>,
      <<"-", "1", ":", "3", "0">>,
      <<"1", ".", "2", ".", "3">>,
      <<"0", "0", ":", "6", "0">>,
      <<"0", "0", ":", "6", "0", ":", "0", "0">>,
      <<"5", ":", "3">>,
      <<"1", "0", "0", ":", "0", "0", ":", "0", "0">>,
      <<"0", "0", ":", "a", "a", ":", "1", "0">>,
      <<"1", ":", "2", ":", "x", ":", "4">>,
      <<"x", ":", "2", ":", "3", ":", "4">>,
      <<":">>,
      <<"0", "0", ":", "1", "0", ".">>,
      <<"0", "0", ":", "1", "0", ".", "a", "b">>,
      <<"0", "0", ":", "1", "0", ".", "1", "2", "3", "4">>,
      <<" ", "0", "0", ":", "1", "0">>,
      <<"0", "0", ":", "1", "0", "\n", "\n">> }

Texts == ShapedTexts \cup OddTexts

(***************************************************************************)
(* The state of the request handlers while the batch runs, and of the      *)
(* batch while a request handler runs.                                     *)
(***************************************************************************)
NoRequest == [tab |-> "none"]

UiIdle ==
    /\ variant = "none"
    /\ request = NoRequest
    /\ ntemp = 0
    /\ file_path = NoFile
    /\ temp_dir = NoFile
    /\ output_file = NoFile
    /\ yt_audio = NoFile
    /\ trimmed_file = NoFile
    /\ ui_transcriptions = <<>>
    /\ ui_result = <<>>
    /\ st_errors = <<>>

BatchIdle ==
    /\ kind = "none"
    /\ batch = <<>>
    /\ si = 1
    /\ ri = 1
    /\ unit = 0
    /\ raw_file = NoFile
    /\ audio_file = NoFile
    /\ speaker_transcriptions = <<>>
    /\ transcriptions = <<>>
    /\ outcome = <<>>
    /\ indexFile = None
    /\ writes = 0

LegacyIdle ==
    /\ audio_files = <<>>
    /\ file_and_transcripts = <<>>

NoTime == [of |-> "none"]

TimeIdle ==
    /\ time_in = NoTime
    /\ time_text = None
    /\ time_valid = <<>>
    /\ time_secs = <<>>
    /\ time_back = None

(***************************************************************************)
(* process_videos / process_audios.                                        *)
(***************************************************************************)
CurSource == batch[si]

CurRange == batch[si].time_ranges[ri]

InitBatch ==
    /\ kind \in {"videos", "audios"}
    /\ batch \in Batches
    /\ kind = "videos" => \A k \in 1..Len(batch) : batch[k].exists
    /\ batch[1].time_ranges[1].start_time = T_ab_cd =>
            \A k \in 1..Len(batch) : batch[k].exists
    /\ disk = IF kind = "audios"
              THEN {batch[k].ref : k \in {n \in 1..Len(batch) : batch[n].exists}}
              ELSE {}
    /\ pc = "source"
    /\ si = 1
    /\ ri = 1
    /\ unit = 0
    /\ calls = <<>>
    /\ diarization_segments = <<>>
    /\ i = 0
    /\ segment_file = NoFile
    /\ raw_file = NoFile
    /\ audio_file = NoFile
    /\ speaker_transcriptions = <<>>
    /\ transcriptions = <<>>
    /\ outcome = <<>>
    /\ indexFile = None
    /\ writes = 0
    /\ UiIdle
    /\ LegacyIdle
    /\ TimeIdle

\* the locals of a unit are dead once the unit has ended: the model clears them
ClearLocals ==
    /\ i' = 0
    /\ segment_file' = NoFile
    /\ raw_file' = NoFile
    /\ audio_file' = NoFile
    /\ speaker_transcriptions' = <<>>

\* the except branch of a unit: logger.error(...); continue
UnitFailed(entries) ==
    /\ outcome' = Append(outcome, "failed")
    /\ transcriptions' = entries
    /\ ri' = ri + 1
    /\ pc' = "range"
    /\ diarization_segments' = <<>>
    /\ ClearLocals

\* a variant of process_audios without the is_file() check
NextSourceUnchecked ==
    /\ pc = "source"
    /\ IF si > Len(batch)
       THEN /\ pc' = "write"
            /\ UNCHANGED ri
       ELSE /\ ri' = 1
            /\ pc' = "range"
    /\ UNCHANGED <<si, unit, outcome, calls, diarization_segments>>
    /\ UNCHANGED <<disk, i, segment_file, kind, batch,
                   raw_file, audio_file, speaker_transcriptions, transcriptions,
                   indexFile, writes>>
    /\ UNCHANGED <<uiVars, legacyVars, timeVars>>

\* top of `for video in videos` / `for audio in audios`
NextSource ==
    /\ pc = "source"
    /\ IF si > Len(batch)
       THEN /\ pc' = "write"
            /\ UNCHANGED <<si, ri, unit, outcome, calls, diarization_segments>>
       ELSE IF kind = "audios" /\ CurSource.ref \notin disk
       THEN \* not audio_path.is_file(): logger.error(...); continue
            /\ outcome' = outcome \o [j \in 1..Len(CurSource.time_ranges) |-> "skipped"]
            /\ unit' = unit + Len(CurSource.time_ranges)
            /\ si' = si + 1
            /\ calls' = <<>>
            /\ diarization_segments' = <<>>
            /\ UNCHANGED <<pc, ri>>
       ELSE /\ ri' = 1
            /\ pc' = "range"
            /\ UNCHANGED <<si, unit, outcome, calls, diarization_segments>>
    /\ UNCHANGED <<disk, i, segment_file, kind, batch,
                   raw_file, audio_file, speaker_transcriptions, transcriptions,
                   indexFile, writes>>
    /\ UNCHANGED <<uiVars, legacyVars, timeVars>>

\* top of `for time_range in ...time_ranges`
NextRange ==
    /\ pc = "range"
    /\ IF ri > Len(CurSource.time_ranges)
       THEN /\ si' = si + 1
            /\ pc' = "source"
            /\ UNCHANGED <<unit, calls, diarization_segments>>
       ELSE /\ unit' = unit + 1
            /\ pc' = IF kind = "videos" THEN "download" ELSE "trim"
            /\ calls' = <<>>
            /\ diarization_segments' = <<>>
            /\ UNCHANGED si
    /\ UNCHANGED <<disk, i, segment_file, kind, batch, ri, raw_file, audio_file,
                   speaker_transcriptions, transcriptions, outcome, indexFile,
                   writes>>
    /\ UNCHANGED <<uiVars, legacyVars, timeVars>>

\* AudioProcessor.download_audio, called by AudioProcessor.process_audio
DownloadAudio ==
    /\ pc = "download"
    /\ \E res \in Outcomes :
      /\ calls' = Append(calls, Call("download", res))
      /\
        IF res = "ok"
        THEN /\ raw_file' = RawPath(CurRange.id)
             /\ disk' = disk \cup {RawPath(CurRange.id)}
             /\ pc' = "trim"
             /\ UNCHANGED <<ri, outcome, transcriptions, diarization_segments, i,
                            segment_file, audio_file, speaker_transcriptions>>
        ELSE /\ UnitFailed(transcriptions)
             /\ UNCHANGED disk
    /\ UNCHANGED <<kind, batch, si, unit, indexFile, writes>>
    /\ UNCHANGED <<uiVars, legacyVars, timeVars>>

\* a variant of the window cut that leaves the raw download in place
TrimWindowKeepingRaw ==
    /\ pc = "trim"
    /\ LET input == IF kind = "videos" THEN raw_file ELSE CurSource.ref
       IN \E res \in ToolOutcomes(input) :
          /\ calls' = Append(calls, Call("trim", res))
          /\
            IF res = "ok"
            THEN /\ audio_file' = TrimPath(CurRange.id)
                 /\ disk' = disk \cup {TrimPath(CurRange.id)}
                 /\ pc' = "diarize"
                 /\ UNCHANGED <<ri, outcome, transcriptions, diarization_segments,
                                i, segment_file, raw_file, speaker_transcriptions>>
            ELSE /\ UnitFailed(transcriptions)
                 /\ UNCHANGED disk
    /\ UNCHANGED <<kind, batch, si, unit, indexFile, writes>>
    /\ UNCHANGED <<uiVars, legacyVars, timeVars>>

\* the window cut: AudioProcessor.trim_audio (then raw_file.unlink) for a video,
\* AudioProcessor.process_local_audio for a local file
TrimWindow ==
    /\ pc = "trim"
    /\ LET input == IF kind = "videos" THEN raw_file ELSE CurSource.ref
       IN \E res \in ToolOutcomes(input) :
          /\ calls' = Append(calls, Call("trim", res))
          /\
            IF res = "ok"
            THEN /\ audio_file' = TrimPath(CurRange.id)
                 /\ disk' = IF kind = "videos"
                            THEN (disk \cup {TrimPath(CurRange.id)}) \ {raw_file}
                            ELSE disk \cup {TrimPath(CurRange.id)}
                 /\ pc' = "diarize"
                 /\ UNCHANGED <<ri, outcome, transcriptions, diarization_segments,
                                i, segment_file, raw_file, speaker_transcriptions>>
            ELSE /\ UnitFailed(transcriptions)
                 /\ UNCHANGED disk
    /\ UNCHANGED <<kind, batch, si, unit, indexFile, writes>>
    /\ UNCHANGED <<uiVars, legacyVars, timeVars>>

\* a variant that turns a failure of the diarizer into an empty list of turns,
\* as run_diarization of the page does
DiarizeSwallowing ==
    /\ pc = "diarize"
    /\ \E res \in ToolOutcomes(audio_file) :
      /\ calls' = Append(calls, Call("diarize", res))
      /\ \E segs \in IF res = "ok" THEN SeqsUpTo(TurnsIn(unit), MaxBatchTurns) ELSE {<<>>} :
            /\ diarization_segments' = segs
            /\ pc' = IF segs = <<>> THEN "assemble" ELSE "segcut"
    /\ speaker_transcriptions' = <<>>
    /\ i' = 0
    /\ UNCHANGED <<ri, outcome, transcriptions, segment_file, raw_file, audio_file>>
    /\ UNCHANGED <<disk, kind, batch, si, unit, indexFile, writes>>
    /\ UNCHANGED <<uiVars, legacyVars, timeVars>>

\* SpeakerDiarizer.diarize
Diarize ==
    /\ pc = "diarize"
    /\ \E res \in ToolOutcomes(audio_file) :
      /\ calls' = Append(calls, Call("diarize", res))
      /\
        IF res = "ok"
        THEN /\ \E segs \in SeqsUpTo(TurnsIn(unit), MaxBatchTurns) :
                  /\ diarization_segments' = segs
                  /\ pc' = IF segs = <<>> THEN "assemble" ELSE "segcut"
             /\ speaker_transcriptions' = <<>>
             /\ i' = 0
             /\ UNCHANGED <<ri, outcome, transcriptions, segment_file, raw_file,
                            audio_file>>
        ELSE UnitFailed(transcriptions)
    /\ UNCHANGED <<disk, kind, batch, si, unit, indexFile, writes>>
    /\ UNCHANGED <<uiVars, legacyVars, timeVars>>

\* audio_processor.trim_audio(audio_file, seg_start, seg_end, f"{time_range.id}_{i}")
TrimSegment ==
    /\ pc = "segcut"
    /\ \E res \in ToolOutcomes(audio_file) :
      /\ calls' = Append(calls, Call("segcut", res))
      /\
        IF res = "ok"
        THEN /\ segment_file' = TrimPath(CompoundId(CurRange.id, i))
             /\ disk' = disk \cup {TrimPath(CompoundId(CurRange.id, i))}
             /\ pc' = "transcribe"
             /\ UNCHANGED <<ri, outcome, transcriptions, diarization_segments, i,
                            raw_file, audio_file, speaker_transcriptions>>
        ELSE /\ UnitFailed(transcriptions)
             /\ UNCHANGED disk
    /\ UNCHANGED <<kind, batch, si, unit, indexFile, writes>>
    /\ UNCHANGED <<uiVars, legacyVars, timeVars>>

\* a variant that logs a failure of the transcriber and goes on to the next turn
TranscribeSegmentSkipping ==
    /\ pc = "transcribe"
    /\ \E res \in ToolOutcomes(segment_file) :
      /\ calls' = Append(calls, Call("transcribe", res))
      /\ speaker_transcriptions' =
            IF res = "ok"
            THEN Append(speaker_transcriptions,
                        SpeakerLine(diarization_segments[i + 1],
                                    Transcript(diarization_segments[i + 1])))
            ELSE speaker_transcriptions
    /\ disk' = disk \ {segment_file}
    /\ i' = i + 1
    /\ pc' = IF i + 1 < Len(diarization_segments) THEN "segcut" ELSE "assemble"
    /\ UNCHANGED <<ri, outcome, transcriptions, diarization_segments,
                   segment_file, raw_file, audio_file>>
    /\ UNCHANGED <<kind, batch, si, unit, indexFile, writes>>
    /\ UNCHANGED <<uiVars, legacyVars, timeVars>>

\* transcriber.transcribe_file(segment_file); segment_file.unlink(); append
TranscribeSegment ==
    /\ pc = "transcribe"
    /\ \E res \in ToolOutcomes(segment_file) :
      /\ calls' = Append(calls, Call("transcribe", res))
      /\
        IF res = "ok"
        THEN /\ disk' = disk \ {segment_file}
             /\ speaker_transcriptions' =
                    Append(speaker_transcriptions,
                           SpeakerLine(diarization_segments[i + 1],
                                       Transcript(diarization_segments[i + 1])))
             /\ i' = i + 1
             /\ pc' = IF i + 1 < Len(diarization_segments) THEN "segcut" ELSE "assemble"
             /\ UNCHANGED <<ri, outcome, transcriptions, diarization_segments,
                            segment_file, raw_file, audio_file>>
        ELSE /\ UnitFailed(transcriptions)
             /\ UNCHANGED disk
    /\ UNCHANGED <<kind, batch, si, unit, indexFile, writes>>
    /\ UNCHANGED <<uiVars, legacyVars, timeVars>>

\* a variant of the end of a unit that flushes the index after every entry
AssembleFlushing ==
    /\ pc = "assemble"
    /\ transcriptions' =
            StoreResult(transcriptions,
                        [file       |-> RelPath(audio_file),
                         transcript |-> CombinedTranscript(speaker_transcriptions)])
    /\ indexFile' = IndexContent(transcriptions')
    /\ writes' = writes + 1
    /\ disk' = disk \ {audio_file}
    /\ outcome' = Append(outcome, "ok")
    /\ ri' = ri + 1
    /\ pc' = "range"
    /\ ClearLocals
    /\ UNCHANGED <<calls, diarization_segments, kind, batch, si, unit>>
    /\ UNCHANGED <<uiVars, legacyVars, timeVars>>

\* a variant of the end of a unit that keeps the windowed file of the entry
AssembleKeepingWindow ==
    /\ pc = "assemble"
    /\ transcriptions' =
            StoreResult(transcriptions,
                        [file       |-> RelPath(audio_file),
                         transcript |-> CombinedTranscript(speaker_transcriptions)])
    /\ outcome' = Append(outcome, "ok")
    /\ ri' = ri + 1
    /\ pc' = "range"
    /\ ClearLocals
    /\ UNCHANGED <<disk, calls, diarization_segments, kind, batch, si, unit,
                   indexFile, writes>>
    /\ UNCHANGED <<uiVars, legacyVars, timeVars>>

\* combined_transcript; transcriptions.append({...}); audio_file.unlink()
Assemble ==
    /\ pc = "assemble"
    /\ transcriptions' =
            StoreResult(transcriptions,
                        [file       |-> RelPath(audio_file),
                         transcript |-> CombinedTranscript(speaker_transcriptions)])
    /\ disk' = disk \ {audio_file}
    /\ outcome' = Append(outcome, "ok")
    /\ ri' = ri + 1
    /\ pc' = "range"
    /\ ClearLocals
    /\ UNCHANGED <<calls, diarization_segments, kind, batch, si, unit, indexFile,
                   writes>>
    /\ UNCHANGED <<uiVars, legacyVars, timeVars>>

\* writer.write_transcriptions(transcriptions)
WriteTranscriptions ==
    /\ pc = "write"
    /\ indexFile' = IndexContent(transcriptions)
    /\ writes' = writes + 1
    /\ pc' = "done"
    /\ UNCHANGED <<disk, calls, diarization_segments, i, segment_file, kind, batch,
                   si, ri, unit, raw_file, audio_file, speaker_transcriptions,
                   transcriptions, outcome>>
    /\ UNCHANGED <<uiVars, legacyVars, timeVars>>

(***************************************************************************)
(* The first pipeline, src/main_standalone.py: main() downloads and trims  *)
(* every time range, then transcribes the files it collected, then writes  *)
(* list.txt.                                                               *)
(***************************************************************************)
\* os.path.join(output_path, f"{file_id}_raw.wav")
LegacyRawPath(file_id) == audio_output_dir \o file_id \o <<"_", "r", "a", "w", ".", "w", "a", "v">>

\* result["text"] of the Whisper model for the whole window of the u-th unit
LegacyWhisperText(u) ==
    IF u % 2 = 1 THEN <<" ", "h", "e", "l", "l", "o">> ELSE <<"w", "o", "r", "l", "d", "\n">>

\* the unit whose windowed artifact is at `path`
UnitOfFile(path) ==
    CHOOSE u \in 1..NumUnits(batch) : TrimPath(UnitsOf(batch)[u].time_range.id) = path

\* f"{relative_audio_path}|{transcript}"
LegacyLine(path) ==
    RelPath(path) \o <<"|">> \o Strip(LegacyWhisperText(UnitOfFile(path)))

\* create_transcription_file: f.write(f"{line}\n") for every line
RECURSIVE LegacyContent(_)
LegacyContent(lines) ==
    IF lines = <<>> THEN <<>>
    ELSE Head(lines) \o <<"\n">> \o LegacyContent(Tail(lines))

InitLegacy ==
    /\ kind = "legacy"
    /\ batch \in {b \in Batches : \A k \in 1..Len(b) : b[k].exists}
    /\ disk = {}
    /\ pc = "lg_range"
    /\ si = 1
    /\ ri = 1
    /\ unit = 0
    /\ calls = <<>>
    /\ diarization_segments = <<>>
    /\ i = 0
    /\ segment_file = NoFile
    /\ raw_file = NoFile
    /\ audio_file = NoFile
    /\ speaker_transcriptions = <<>>
    /\ transcriptions = <<>>
    /\ outcome = <<>>
    /\ indexFile = None
    /\ writes = 0
    /\ audio_files = <<>>
    /\ file_and_transcripts = <<>>
    /\ UiIdle
    /\ TimeIdle

\* a variant in which the exception is not caught and ends main()
LegacyUnitAborts ==
    /\ pc' = "lg_raised"
    /\ UNCHANGED <<outcome, ri, audio_files>>

\* `except Exception as e: print(...)` around download_and_trim_audio
LegacyUnitFailed ==
    /\ outcome' = Append(outcome, "failed")
    /\ ri' = ri + 1
    /\ pc' = "lg_range"
    /\ UNCHANGED audio_files

\* the two nested `for` loops of main()
LegacyNext ==
    /\ pc = "lg_range"
    /\ IF si > Len(batch)
       THEN /\ pc' = "lg_transcribe"
            /\ i' = 0
            /\ UNCHANGED <<si, ri, unit, calls>>
       ELSE IF ri > Len(CurSource.time_ranges)
       THEN /\ si' = si + 1
            /\ ri' = 1
            /\ UNCHANGED <<pc, i, unit, calls>>
       ELSE /\ unit' = unit + 1
            /\ calls' = <<>>
            /\ pc' = "lg_download"
            /\ UNCHANGED <<si, ri, i>>
    /\ UNCHANGED <<disk, diarization_segments, segment_file, kind, batch, raw_file,
                   audio_file, speaker_transcriptions, transcriptions, outcome,
                   indexFile, writes>>
    /\ UNCHANGED <<legacyVars, uiVars, timeVars>>

\* download_and_trim_audio: yt-dlp; a CalledProcessError is printed and re-raised
LegacyDownload ==
    /\ pc = "lg_download"
    /\ \E res \in Outcomes :
      /\ calls' = Append(calls, Call("download", res))
      /\
        IF res = "ok"
        THEN /\ raw_file' = LegacyRawPath(CurRange.id)
             /\ disk' = disk \cup {LegacyRawPath(CurRange.id)}
             /\ pc' = "lg_trim"
             /\ UNCHANGED <<outcome, ri, audio_files>>
        ELSE /\ LegacyUnitFailed
             /\ UNCHANGED <<raw_file, disk>>
    /\ UNCHANGED <<diarization_segments, i, segment_file, kind, batch, si, unit,
                   audio_file, speaker_transcriptions, transcriptions, indexFile,
                   writes, file_and_transcripts>>
    /\ UNCHANGED <<uiVars, timeVars>>

\* download_and_trim_audio: ffmpeg -ss start -to end (a TypeError when end_time
\* is None), removal of the raw file, return of the trimmed file
LegacyTrim ==
    /\ pc = "lg_trim"
    /\ \E res \in IF CurRange.end_time = None THEN {"fail"} ELSE ToolOutcomes(raw_file) :
      /\ calls' = Append(calls, Call("trim", res))
      /\
        IF res = "ok"
        THEN /\ disk' = (disk \cup {TrimPath(CurRange.id)}) \ {raw_file}
             /\ audio_files' = Append(audio_files, TrimPath(CurRange.id))
             /\ outcome' = Append(outcome, "acquired")
             /\ ri' = ri + 1
             /\ pc' = "lg_range"
        ELSE /\ LegacyUnitFailed
             /\ UNCHANGED disk
    /\ raw_file' = NoFile
    /\ UNCHANGED <<diarization_segments, i, segment_file, kind, batch, si, unit,
                   audio_file, speaker_transcriptions, transcriptions, indexFile,
                   writes, file_and_transcripts>>
    /\ UNCHANGED <<uiVars, timeVars>>

\* transcribe_audio_files: one turn of `for audio_file in audio_files`, or its end
LegacyTranscribe ==
    /\ pc = "lg_transcribe"
    /\ IF i >= Len(audio_files)
       THEN /\ pc' = "lg_write"
            /\ UNCHANGED <<i, calls, outcome, file_and_transcripts>>
       ELSE /\ i' = i + 1
            /\ UNCHANGED pc
            /\ IF audio_files[i + 1] \notin disk
               THEN \* print("File not found")
                    /\ outcome' = [outcome EXCEPT ![UnitOfFile(audio_files[i + 1])] = "failed"]
                    /\ UNCHANGED <<calls, file_and_transcripts>>
               ELSE \E res \in Outcomes :
                      /\ calls' = <<Call("transcribe", res)>>
                      /\ outcome' = [outcome EXCEPT ![UnitOfFile(audio_files[i + 1])] =
                                        IF res = "ok" THEN "ok" ELSE "failed"]
                      /\ file_and_transcripts' =
                            IF res = "ok"
                            THEN Append(file_and_transcripts, LegacyLine(audio_files[i + 1]))
                            ELSE file_and_transcripts
    /\ UNCHANGED <<disk, diarization_segments, segment_file, kind, batch, si, ri, unit,
                   raw_file, audio_file, speaker_transcriptions, transcriptions,
                   indexFile, writes, audio_files>>
    /\ UNCHANGED <<uiVars, timeVars>>

\* create_transcription_file(file_and_transcripts, output_file)
LegacyWrite ==
    /\ pc = "lg_write"
    /\ indexFile' = LegacyContent(file_and_transcripts)
    /\ writes' = writes + 1
    /\ pc' = "lg_done"
    /\ UNCHANGED <<disk, calls, diarization_segments, i, segment_file, kind, batch,
                   si, ri, unit, raw_file, audio_file, speaker_transcriptions,
                   transcriptions, outcome>>
    /\ UNCHANGED <<legacyVars, uiVars, timeVars>>

(***************************************************************************)
(* The Streamlit request handlers: main() and process_audio() of           *)
(* src/main.py (with app/audio_processor.py, app/diarizer.py,              *)
(* app/transcriber.py) and of src/app.py.                                  *)
(***************************************************************************)
T_30 == <<"3", "0">>

T_1_2_3_4 == <<"1", ":", "2", ":", "3", ":", "4">>

HTTPS == <<"h", "t", "t", "p", "s", ":", "/", "/">>

StartInputs == {T_00_00_10, T_ab_cd, <<>>, T_30, T_1_2_3_4}

EndInputs == {None, <<>>, T_00_00_20, T_ab_cd}

UrlInputs == {HTTPS \o <<"y">>, <<"h", "t", "t", "p", ":", "/", "/", "y">>}

Requests ==
    [tab : {"upload"}, start_time : StartInputs, end_time : EndInputs,
     youtube_url : {<<>>}]
    \cup
    [tab : {"youtube"}, start_time : StartInputs, end_time : EndInputs,
     youtube_url : UrlInputs]

\* the n-th directory tempfile.mkdtemp() makes
TempDir(n) == <<"/tmp/tmp", Digit(n)>>

\* os.path.join(directory, name)
PathJoin(directory, name) == directory \o <<"/">> \o name

UploadName == <<"c", "l", "i", "p", ".", "m", "p", "3">>

TrimmedName == <<"t", "r", "i", "m", "m", "e", "d", "_", "a", "u", "d", "i", "o", ".", "w", "a", "v">>

YoutubeName == <<"y", "o", "u", "t", "u", "b", "e", "_", "a", "u", "d", "i", "o", ".", "w", "a", "v">>

\* f"segment_{i}.wav"
SegmentName(n) == <<"s", "e", "g", "m", "e", "n", "t", "_">> \o Str(n) \o <<".", "w", "a", "v">>

\* a variant that records the times relative to the start of the turn's cut
SegmentRecordRelative(turn, text) ==
    [speaker |-> turn.speaker, text |-> text,
     start |-> 0, end |-> turn.end - turn.start]

\* the dict process_audio appends for a transcribed turn
SegmentRecord(turn, text) ==
    [speaker |-> turn.speaker, text |-> text, start |-> turn.start, end |-> turn.end]

\* a variant that keeps the segments ordered by (start, end), as a sort of the
\* turns before the loop would
RECURSIVE InsertByStart(_, _)
InsertByStart(segments, record) ==
    IF segments = <<>> THEN <<record>>
    ELSE IF \/ record.start < Head(segments).start
            \/ record.start = Head(segments).start /\ record.end < Head(segments).end
    THEN <<record>> \o segments
    ELSE <<Head(segments)>> \o InsertByStart(Tail(segments), record)

\* a variant that leaves out a segment without text
AppendSegmentWithText(segments, record) ==
    IF record.text = <<>> THEN segments ELSE Append(segments, record)

\* transcriptions.append(...)
AppendSegment(segments, record) == Append(segments, record)

InitUI ==
    /\ variant \in {"modular", "monolithic"}
    /\ request \in Requests
    /\ pc = "ui_start"
    /\ disk = {}
    /\ calls = <<>>
    /\ diarization_segments = <<>>
    /\ i = 0
    /\ segment_file = NoFile
    /\ ntemp = 0
    /\ file_path = NoFile
    /\ temp_dir = NoFile
    /\ output_file = NoFile
    /\ yt_audio = NoFile
    /\ trimmed_file = NoFile
    /\ ui_transcriptions = <<>>
    /\ ui_result = <<>>
    /\ st_errors = <<>>
    /\ BatchIdle
    /\ LegacyIdle
    /\ TimeIdle

\* the button handler of main() up to its first adapter call: the validation,
\* then create_temp_file (upload tab) or mkdtemp (YouTube tab)
UiButton ==
    /\ pc = "ui_start"
    /\ IF ~validate_time_format(request.start_time)
       THEN /\ st_errors' = Append(st_errors, "Invalid start time format")
            /\ pc' = "ui_rejected"
            /\ UNCHANGED <<disk, ntemp, file_path, output_file>>
       ELSE IF Truthy(request.end_time) /\ ~validate_time_format(request.end_time)
       THEN /\ st_errors' = Append(st_errors, "Invalid end time format")
            /\ pc' = "ui_rejected"
            /\ UNCHANGED <<disk, ntemp, file_path, output_file>>
       ELSE IF request.tab = "youtube" /\ ~StartsWith(request.youtube_url, HTTPS)
       THEN /\ st_errors' = Append(st_errors, "Please enter a valid YouTube URL")
            /\ pc' = "ui_rejected"
            /\ UNCHANGED <<disk, ntemp, file_path, output_file>>
       ELSE IF request.tab = "upload"
       THEN \* create_temp_file(uploaded_file)
            /\ ntemp' = ntemp + 1
            /\ disk' = disk \cup {TempDir(ntemp + 1),
                                  PathJoin(TempDir(ntemp + 1), UploadName)}
            /\ file_path' = PathJoin(TempDir(ntemp + 1), UploadName)
            /\ pc' = "ui_trim"
            /\ UNCHANGED <<st_errors, output_file>>
       ELSE /\ ntemp' = ntemp + 1
            /\ disk' = disk \cup {TempDir(ntemp + 1)}
            /\ output_file' = PathJoin(TempDir(ntemp + 1), YoutubeName)
            /\ pc' = "ui_download"
            /\ UNCHANGED <<st_errors, file_path>>
    /\ UNCHANGED <<calls, diarization_segments, i, segment_file, variant, request,
                   temp_dir, yt_audio, trimmed_file, ui_transcriptions, ui_result>>
    /\ UNCHANGED <<batchVars, legacyVars, timeVars>>

\* download_youtube_audio(youtube_url, output_file)
UiDownload ==
    /\ pc = "ui_download"
    /\ \E res \in Outcomes :
      /\ calls' = Append(calls, Call("download", res))
      /\
        IF res = "ok"
        THEN /\ disk' = disk \cup {output_file}
             /\ yt_audio' = output_file
             /\ file_path' = output_file
             /\ pc' = "ui_trim"
             /\ UNCHANGED st_errors
        ELSE /\ st_errors' = Append(st_errors, "Error downloading audio")
             /\ yt_audio' = None
             /\ pc' = "ui_tail"
             /\ UNCHANGED <<disk, file_path>>
    /\ UNCHANGED <<diarization_segments, i, segment_file, variant, request, ntemp,
                   temp_dir, output_file, trimmed_file, ui_transcriptions,
                   ui_result>>
    /\ UNCHANGED <<batchVars, legacyVars, timeVars>>

\* process_audio up to the window cut: mkdtemp, trim_audio, `return []` on failure
UiTrimWindow ==
    /\ pc = "ui_trim"
    /\ ntemp' = ntemp + 1
    /\ temp_dir' = TempDir(ntemp + 1)
    /\ \E res \in ToolOutcomes(file_path) :
      /\ calls' = Append(calls, Call("trim", res))
      /\
        IF res = "ok"
        THEN /\ disk' = disk \cup {TempDir(ntemp + 1),
                                   PathJoin(TempDir(ntemp + 1), TrimmedName)}
             /\ trimmed_file' = PathJoin(TempDir(ntemp + 1), TrimmedName)
             /\ pc' = "ui_diarize"
             /\ UNCHANGED <<st_errors, ui_result>>
        ELSE /\ disk' = disk \cup {TempDir(ntemp + 1)}
             /\ st_errors' = Append(st_errors, "Error trimming audio")
             /\ ui_result' = << <<>> >>
             /\ pc' = "ui_tail"
             /\ UNCHANGED trimmed_file
    /\ UNCHANGED <<diarization_segments, i, segment_file, variant, request,
                   file_path, output_file, yt_audio, ui_transcriptions>>
    /\ UNCHANGED <<batchVars, legacyVars, timeVars>>

\* run_diarization(trimmed_file): an exception of the pipeline gives []
UiDiarize ==
    /\ pc = "ui_diarize"
    /\ \E res \in ToolOutcomes(trimmed_file) :
      /\ calls' = Append(calls, Call("diarize", res))
      /\
        IF res = "ok"
        THEN /\ \E segs \in SeqsUpTo(Turns, MaxTurns) :
                  /\ diarization_segments' = segs
                  /\ pc' = IF segs = <<>> THEN "ui_finish" ELSE "ui_segcut"
             /\ UNCHANGED st_errors
        ELSE /\ st_errors' = Append(st_errors, "Error during diarization")
             /\ diarization_segments' = <<>>
             /\ pc' = "ui_finish"
    /\ ui_transcriptions' = <<>>
    /\ i' = 0
    /\ UNCHANGED <<disk, segment_file, variant, request, ntemp, file_path, temp_dir,
                   output_file, yt_audio, trimmed_file, ui_result>>
    /\ UNCHANGED <<batchVars, legacyVars, timeVars>>

\* a variant in which a failed cut of a turn ends the request with an exception
UiTrimSegmentFatal ==
    /\ pc = "ui_segcut"
    /\ \E res \in ToolOutcomes(trimmed_file) :
      /\ calls' = Append(calls, Call("segcut", res))
      /\
        IF res = "ok"
        THEN /\ segment_file' = PathJoin(temp_dir, SegmentName(i))
             /\ disk' = disk \cup {PathJoin(temp_dir, SegmentName(i))}
             /\ pc' = "ui_transcribe"
        ELSE /\ pc' = "ui_raised"
             /\ UNCHANGED <<segment_file, disk>>
    /\ UNCHANGED <<diarization_segments, i, variant, request, ntemp, file_path,
                   temp_dir, output_file, yt_audio, trimmed_file, ui_transcriptions,
                   ui_result, st_errors>>
    /\ UNCHANGED <<batchVars, legacyVars, timeVars>>

\* a variant of the per-turn cut that hands the path to the transcriber without
\* testing what trim_audio returned
UiTrimSegmentBlind ==
    /\ pc = "ui_segcut"
    /\ \E res \in ToolOutcomes(trimmed_file) :
      /\ calls' = Append(calls, Call("segcut", res))
      /\ segment_file' = PathJoin(temp_dir, SegmentName(i))
      /\ disk' = IF res = "ok"
                THEN disk \cup {PathJoin(temp_dir, SegmentName(i))}
                ELSE disk
      /\ pc' = "ui_transcribe"
      /\ UNCHANGED <<st_errors, i>>
    /\ UNCHANGED <<diarization_segments, variant, request, ntemp, file_path,
                   temp_dir, output_file, yt_audio, trimmed_file, ui_transcriptions,
                   ui_result>>
    /\ UNCHANGED <<batchVars, legacyVars, timeVars>>

\* trim_audio(trimmed_file, seg_start, seg_end, segment_path): None on failure,
\* and then the turn is skipped
UiTrimSegment ==
    /\ pc = "ui_segcut"
    /\ \E res \in ToolOutcomes(trimmed_file) :
      /\ calls' = Append(calls, Call("segcut", res))
      /\
        IF res = "ok"
        THEN /\ segment_file' = PathJoin(temp_dir, SegmentName(i))
             /\ disk' = disk \cup {PathJoin(temp_dir, SegmentName(i))}
             /\ pc' = "ui_transcribe"
             /\ UNCHANGED <<st_errors, i>>
        ELSE /\ st_errors' = Append(st_errors, "Error trimming audio")
             /\ i' = i + 1
             /\ pc' = IF i + 1 < Len(diarization_segments)
                      THEN "ui_segcut" ELSE "ui_finish"
             /\ UNCHANGED <<segment_file, disk>>
    /\ UNCHANGED <<diarization_segments, variant, request, ntemp, file_path,
                   temp_dir, output_file, yt_audio, trimmed_file, ui_transcriptions,
                   ui_result>>
    /\ UNCHANGED <<batchVars, legacyVars, timeVars>>

\* transcriber.transcribe(segment_file); append; os.remove(segment_file).
\* An exception of the transcriber is not caught.
UiTranscribe ==
    /\ pc = "ui_transcribe"
    /\ \E res \in ToolOutcomes(segment_file) :
      /\ calls' = Append(calls, Call("transcribe", res))
      /\
        IF res = "ok"
        THEN /\ ui_transcriptions' =
                    AppendSegment(ui_transcriptions,
                                  SegmentRecord(diarization_segments[i + 1],
                                                Transcript(diarization_segments[i + 1])))
             /\ disk' = disk \ {segment_file}
             /\ i' = i + 1
             /\ pc' = IF i + 1 < Len(diarization_segments)
                      THEN "ui_segcut" ELSE "ui_finish"
        ELSE /\ pc' = "ui_raised"
             /\ UNCHANGED <<ui_transcriptions, disk, i>>
    /\ UNCHANGED <<diarization_segments, segment_file, variant, request, ntemp,
                   file_path, temp_dir, output_file, yt_audio, trimmed_file,
                   ui_result, st_errors>>
    /\ UNCHANGED <<batchVars, legacyVars, timeVars>>

\* os.remove(trimmed_file); return transcriptions
UiFinish ==
    /\ pc = "ui_finish"
    /\ disk' = disk \ {trimmed_file}
    /\ ui_result' = <<ui_transcriptions>>
    /\ pc' = "ui_tail"
    /\ UNCHANGED <<calls, diarization_segments, i, segment_file, variant, request,
                   ntemp, file_path, temp_dir, output_file, yt_audio, trimmed_file,
                   ui_transcriptions, st_errors>>
    /\ UNCHANGED <<batchVars, legacyVars, timeVars>>

\* the rest of main() after process_audio: the display, and on the YouTube tab
\* the removal of the download (os.path.exists(None) raises TypeError)
UiMainTail ==
    /\ pc = "ui_tail"
    /\ IF request.tab = "upload"
       THEN /\ pc' = "ui_returned"
            /\ UNCHANGED disk
       ELSE IF variant = "modular"
       THEN /\ disk' = disk \ {output_file}
            /\ pc' = "ui_returned"
       ELSE IF yt_audio = None
       THEN /\ pc' = "ui_raised"
            /\ UNCHANGED disk
       ELSE /\ disk' = disk \ {yt_audio}
            /\ pc' = "ui_returned"
    /\ UNCHANGED <<calls, diarization_segments, i, segment_file, variant, request,
                   ntemp, file_path, temp_dir, output_file, yt_audio, trimmed_file,
                   ui_transcriptions, ui_result, st_errors>>
    /\ UNCHANGED <<batchVars, legacyVars, timeVars>>

(***************************************************************************)
(* The program is started at one of its entry points: the batch            *)
(* (process_videos or process_audios), the first pipeline, or a button of  *)
(* the Streamlit page.                                                     *)
(***************************************************************************)
Init == InitBatch \/ InitLegacy \/ InitUI

Next ==
    \/ NextSource
    \/ NextRange
    \/ DownloadAudio
    \/ TrimWindow
    \/ Diarize
    \/ TrimSegment
    \/ TranscribeSegment
    \/ Assemble
    \/ WriteTranscriptions
    \/ LegacyNext
    \/ LegacyDownload
    \/ LegacyTrim
    \/ LegacyTranscribe
    \/ LegacyWrite
    \/ UiButton
    \/ UiDownload
    \/ UiTrimWindow
    \/ UiDiarize
    \/ UiTrimSegment
    \/ UiTranscribe
    \/ UiFinish
    \/ UiMainTail

Spec == Init /\ [][Next]_vars

\* the interpreter keeps executing the entry point it was started at
SpecFair == Spec /\ WF_vars(Next)

(***************************************************************************)
(* The time-code utilities applied to their arguments: a duration is       *)
(* formatted and parsed back; a string is validated, parsed and formatted  *)
(* back.                                                                   *)
(***************************************************************************)
InitTime ==
    /\ time_in \in {[of |-> "seconds", seconds |-> d] : d \in Durations}
                    \cup {[of |-> "text", text |-> t] : t \in Texts}
    /\ pc = "t_start"
    /\ time_text = None
    /\ time_valid = <<>>
    /\ time_secs = <<>>
    /\ time_back = None
    /\ disk = {}
    /\ calls = <<>>
    /\ diarization_segments = <<>>
    /\ i = 0
    /\ segment_file = NoFile
    /\ BatchIdle
    /\ UiIdle
    /\ LegacyIdle

\* seconds_to_hms(seconds)
ApplySecondsToHms ==
    /\ pc = "t_start"
    /\ time_in.of = "seconds"
    /\ time_text' \in seconds_to_hms(time_in.seconds)
    /\ pc' = "t_text"
    /\ UNCHANGED <<time_in, time_valid, time_secs, time_back>>
    /\ UNCHANGED <<disk, calls, diarization_segments, i, segment_file>>
    /\ UNCHANGED <<batchVars, uiVars, legacyVars>>

\* validate_time_format(time_str)
ApplyValidate ==
    /\ pc = "t_start"
    /\ time_in.of = "text"
    /\ time_text' = time_in.text
    /\ time_valid' = <<validate_time_format(time_in.text)>>
    /\ pc' = "t_text"
    /\ UNCHANGED <<time_in, time_secs, time_back>>
    /\ UNCHANGED <<disk, calls, diarization_segments, i, segment_file>>
    /\ UNCHANGED <<batchVars, uiVars, legacyVars>>

\* hms_to_seconds(hms)
ApplyHmsToSeconds ==
    /\ pc = "t_text"
    /\ time_secs' = <<hms_to_seconds(time_text)>>
    /\ pc' = "t_parsed"
    /\ UNCHANGED <<time_in, time_text, time_valid, time_back>>
    /\ UNCHANGED <<disk, calls, diarization_segments, i, segment_file>>
    /\ UNCHANGED <<batchVars, uiVars, legacyVars>>

\* seconds_to_hms(hms_to_seconds(time_str)), when a non-negative value was parsed
ApplySecondsToHmsBack ==
    /\ pc = "t_parsed"
    /\ time_in.of = "text"
    /\ time_secs[1].error = "none"
    /\ time_secs[1].seconds >= 0
    /\ time_back' \in seconds_to_hms(time_secs[1].seconds)
    /\ pc' = "t_done"
    /\ UNCHANGED <<time_in, time_text, time_valid, time_secs>>
    /\ UNCHANGED <<disk, calls, diarization_segments, i, segment_file>>
    /\ UNCHANGED <<batchVars, uiVars, legacyVars>>

NextTime ==
    \/ ApplySecondsToHms
    \/ ApplyValidate
    \/ ApplyHmsToSeconds
    \/ ApplySecondsToHmsBack

SpecTime == InitTime /\ [][NextTime]_vars

(***************************************************************************)
(* The naming of the artifacts: process_videos run on one video whose two  *)
(* time ranges carry any two different ids.  TimeRange.id is declared an   *)
(* int, and nothing stops a caller from passing a string; the paths are    *)
(* made from f"{file_id}", the text of the id.                             *)
(***************************************************************************)
IdInputs ==
    {Str(1), Str(2), Str(10), Str(11)}
    \cup {<<"a">>, <<"1", "_", "0">>, <<"2", "_", "1">>, <<"1", "_", "r", "a", "w">>}

InitIds ==
    /\ kind = "videos"
    /\ \E a \in IdInputs : \E b \in IdInputs \ {a} :
          batch = <<[ref    |-> SourceRef(1),
                     exists |-> TRUE,
                     time_ranges |->
                        <<[start_time |-> T_00_00_10, end_time |-> T_00_00_20,
                           id |-> a],
                          [start_time |-> T_00_01_00, end_time |-> None,
                           id |-> b]>>]>>
    /\ disk = {}
    /\ pc = "source"
    /\ si = 1
    /\ ri = 1
    /\ unit = 0
    /\ calls = <<>>
    /\ diarization_segments = <<>>
    /\ i = 0
    /\ segment_file = NoFile
    /\ raw_file = NoFile
    /\ audio_file = NoFile
    /\ speaker_transcriptions = <<>>
    /\ transcriptions = <<>>
    /\ outcome = <<>>
    /\ indexFile = None
    /\ writes = 0
    /\ UiIdle
    /\ LegacyIdle
    /\ TimeIdle

NextIds ==
    \/ NextSource
    \/ NextRange
    \/ DownloadAudio
    \/ TrimWindow
    \/ Diarize
    \/ TrimSegment
    \/ TranscribeSegment
    \/ Assemble
    \/ WriteTranscriptions

SpecIds == InitIds /\ [][NextIds]_vars

(***************************************************************************)
(* Vocabulary of the properties.                                           *)
(***************************************************************************)
InBatch == kind \in {"videos", "audios"}

InUI == variant # "none"

\* process_audio has returned, and what it returned
Returned == InUI /\ ui_result # <<>>

ReturnValue == ui_result[1]

\* the current unit of the batch has ended (or was skipped)
UnitEnded == InBatch /\ unit >= 1 /\ Len(outcome) = unit

Units == UnitsOf(batch)

\* the index path of the windowed artifact of the u-th unit
UnitFile(u) == RelPath(TrimPath(Units[u].time_range.id))

Failed(op) == \E k \in 1..Len(calls) : calls[k] = Call(op, "fail")

LastCall == calls[Len(calls)]

\* the results of the calls of one adapter, in order
ResultsOf(op) == SelectSeq(calls, LAMBDA c : c.op = op)

\* the elements of a sequence at the positions in S, in order
RECURSIVE Restrict(_, _)
Restrict(seq, S) ==
    IF seq = <<>> THEN <<>>
    ELSE Restrict(SubSeq(seq, 1, Len(seq) - 1), S)
         \o (IF Len(seq) \in S THEN <<seq[Len(seq)]>> ELSE <<>>)

TurnOf(record) ==
    [start |-> record.start, end |-> record.end, speaker |-> record.speaker]

TurnsOfRecords(records) == [k \in 1..Len(records) |-> TurnOf(records[k])]

\* ascending start, ties on start by ascending end
SortedByStart(records) ==
    \A j, k \in 1..Len(records) :
        j < k => \/ records[j].start < records[k].start
                 \/ /\ records[j].start = records[k].start
                    /\ records[j].end <= records[k].end

NumOk(outcomes) == Len(SelectSeq(outcomes, LAMBDA o : o = "ok"))

\* the index paths of the successful units among the first n, in submission order
RECURSIVE OkFiles(_)
OkFiles(n) ==
    IF n = 0 THEN <<>>
    ELSE OkFiles(n - 1) \o (IF outcome[n] = "ok" THEN <<UnitFile(n)>> ELSE <<>>)

HasEntry(u) == \E k \in 1..Len(transcriptions) : transcriptions[k].file = UnitFile(u)

(***************************************************************************)
(* C1.  As claimed: the segments produced for a unit are ordered by        *)
(* ascending start, ties broken by ascending end.                          *)
(***************************************************************************)
C1_SegmentsSorted == Returned => SortedByStart(ReturnValue)

(***************************************************************************)
(* C1, amended.  process_audio does not sort: whenever it has collected    *)
(* segments, they are turns of the diarizer's list in the diarizer's       *)
(* emission order (a subsequence of it), whatever their start times; with  *)
(* every cut succeeding they are the whole list in emission order.         *)
(***************************************************************************)
C1_EmissionOrder ==
    InUI =>
        /\ \E S \in SUBSET (1..i) :
              TurnsOfRecords(ui_transcriptions) = Restrict(diarization_segments, S)
        /\ Returned /\ ~Failed("segcut") /\ ~Failed("diarize") /\ ~Failed("trim")
              => TurnsOfRecords(ReturnValue) = diarization_segments

\* the turns (5,8,B), (1,3,A), (1,3,A) came back as (5,8,B), (1,3,A), (1,3,A)
C1_Witness ==
    /\ pc = "ui_returned"
    /\ diarization_segments = <<TurnB, TurnA, TurnA>>
    /\ TurnsOfRecords(ReturnValue) = <<TurnB, TurnA, TurnA>>

(***************************************************************************)
(* C2.  As claimed: a failure of the transcriber on one turn, with nothing *)
(* else failing, leaves the unit successful, with an entry in the result.  *)
(***************************************************************************)
C2_TranscriberFailureTolerated ==
    UnitEnded /\ Failed("transcribe")
        => outcome[unit] = "ok" /\ HasEntry(unit)

(***************************************************************************)
(* C2, amended.  In the batch pipeline a failure of the transcriber on a   *)
(* turn is fatal to the unit: it is the unit's last adapter call, the unit *)
(* is recorded as failed, it contributes no entry (the turns already       *)
(* transcribed are discarded), the entries of the earlier units stay, and  *)
(* the loop goes on to the next time range.  In the Streamlit page the     *)
(* exception leaves process_audio: no later adapter is called and no list  *)
(* of segments is returned.                                                *)
(***************************************************************************)
C2_TranscriberFailureFailsUnit ==
    /\ InBatch /\ Failed("transcribe") =>
        /\ LastCall = Call("transcribe", "fail")
        /\ UnitEnded
        /\ outcome[unit] = "failed"
        /\ ~HasEntry(unit)
        /\ Len(transcriptions) = NumOk(outcome)
        /\ pc \in {"range", "source", "write", "done"}
    /\ InUI /\ Failed("transcribe") =>
        /\ LastCall = Call("transcribe", "fail")
        /\ pc = "ui_raised"
        /\ ~Returned

\* the transcriber failed on the second turn after the first was transcribed
C2_Witness ==
    /\ UnitEnded
    /\ ResultsOf("transcribe") = <<Call("transcribe", "ok"), Call("transcribe", "fail")>>
    /\ outcome[unit] = "failed"

\* the positions of the turns whose cut succeeded
CutOk == {k \in 1..Len(ResultsOf("segcut")) : ResultsOf("segcut")[k].res = "ok"}

\* in the page: a failed cut omits its turn, and the loop reaches every turn
UiCutFailureSkipsTurn ==
    /\ InUI /\ Failed("segcut") /\ ~Failed("transcribe") => pc # "ui_raised"
    /\ Returned /\ ~Failed("trim") =>
        /\ Len(ResultsOf("segcut")) = Len(diarization_segments)
        /\ TurnsOfRecords(ReturnValue) = Restrict(diarization_segments, CutOk)

(***************************************************************************)
(* C3.  As claimed: a failed cut of a turn is not fatal to the work unit,  *)
(* in the page and in the batch alike: the turn is omitted, the other      *)
(* turns appear in the result, and the unit succeeds.                      *)
(***************************************************************************)
C3_CutFailureNotFatal ==
    /\ UiCutFailureSkipsTurn
    /\ UnitEnded /\ Failed("segcut") => outcome[unit] = "ok" /\ HasEntry(unit)

(***************************************************************************)
(* C3, amended.  In process_audio of the Streamlit page a failed cut of a  *)
(* turn is not fatal: the turn is omitted, every later turn is still cut,  *)
(* and the returned segments are exactly the turns whose cut succeeded, in *)
(* the diarizer's order.  In the batch pipeline a failed cut of a turn is  *)
(* fatal to the unit: it is the unit's last adapter call, the unit is      *)
(* recorded as failed and contributes no entry.                            *)
(***************************************************************************)
C3_CutFailureSkipsTurnInPageOnly ==
    /\ UiCutFailureSkipsTurn
    /\ InBatch /\ Failed("segcut") =>
        /\ LastCall = Call("segcut", "fail")
        /\ UnitEnded
        /\ outcome[unit] = "failed"
        /\ ~HasEntry(unit)

\* three turns, the cut of the second failed: the first and the third came back
C3_Witness ==
    /\ pc = "ui_returned"
    /\ diarization_segments = <<TurnA, TurnB, TurnQuiet>>
    /\ ResultsOf("segcut")
          = <<Call("segcut", "ok"), Call("segcut", "fail"), Call("segcut", "ok")>>
    /\ TurnsOfRecords(ReturnValue) = <<TurnA, TurnQuiet>>

(***************************************************************************)
(* C4.  The entries accumulated for the index are exactly the successful   *)
(* units, in submission order, at every moment of the batch; and list.txt  *)
(* holds the lines of exactly these entries.                               *)
(***************************************************************************)
C4_EntriesAreSuccessfulUnitsInOrder ==
    InBatch =>
        /\ [k \in 1..Len(transcriptions) |-> transcriptions[k].file]
              = OkFiles(Len(outcome))
        /\ pc = "done" => indexFile = IndexContent(transcriptions)

\* three units, the second failed at its download: entries for units 1 and 3
C4_Witness ==
    /\ pc = "done"
    /\ kind = "videos"
    /\ outcome = <<"ok", "failed", "ok">>
    /\ RawPath(Units[2].time_range.id) \notin disk
    /\ TrimPath(Units[2].time_range.id) \notin disk
    /\ [k \in 1..Len(transcriptions) |-> transcriptions[k].file]
          = <<UnitFile(1), UnitFile(3)>>

(***************************************************************************)
(* C5.  As claimed: once the batch has finished a unit, successfully or    *)
(* not, none of the unit's raw, windowed or per-turn artifacts is on disk  *)
(* (only the local source files are).                                      *)
(***************************************************************************)
C5_NoArtifactLeftAfterUnit ==
    UnitEnded => disk \subseteq {batch[k].ref : k \in 1..Len(batch)}

\* a call of the download, the window cut or the diarizer has failed
StageFailed == Failed("download") \/ Failed("trim") \/ Failed("diarize")

\* in the batch: the failure ends the unit, which is failed and has no entry;
\* the entries of the units before it stay and the loop goes on
BatchStageFailureFailsUnit ==
    InBatch /\ StageFailed =>
        /\ LastCall.res = "fail"
        /\ LastCall.op \in {"download", "trim", "diarize"}
        /\ UnitEnded
        /\ outcome[unit] = "failed"
        /\ ~HasEntry(unit)
        /\ Len(transcriptions) = NumOk(outcome)
        /\ pc \in {"range", "source", "write", "done"}

(***************************************************************************)
(* C6.  As claimed: a failure of the download, of the window cut or of the *)
(* diarizer is a failure of the unit: no later adapter is called, the unit *)
(* has no entry, the other units go on; and the unit is reported as        *)
(* failed, never as a successful unit with zero segments.                  *)
(***************************************************************************)
C6_StageFailureIsUnitFailure ==
    /\ BatchStageFailureFailsUnit
    /\ InUI /\ StageFailed => LastCall.res = "fail" /\ ~Returned

(***************************************************************************)
(* C6, amended.  In the batch pipeline a failure of the download, of the   *)
(* window cut or of the diarizer is a failure of the unit: no later        *)
(* adapter is called for it, it is recorded as failed and has no entry,    *)
(* the entries of the other units stay and the loop goes on.  In the       *)
(* Streamlit page no later adapter is called either and an error message   *)
(* is shown, but a failure of the window cut or of the diarizer makes      *)
(* process_audio return the empty list, the same value as for a recording  *)
(* without turns; after a failed download process_audio is not called.     *)
(***************************************************************************)
C6_StageFailureBatchFailsPageReturnsEmpty ==
    /\ BatchStageFailureFailsUnit
    /\ InUI /\ StageFailed =>
        /\ LastCall.res = "fail"
        /\ LastCall.op \in {"download", "trim", "diarize"}
        /\ st_errors # <<>>
        /\ Failed("download") => ~Returned /\ pc \in {"ui_tail", "ui_returned", "ui_raised"}
        /\ ~Failed("download") =>
              \/ pc = "ui_finish" /\ ui_transcriptions = <<>>
              \/ Returned /\ ReturnValue = <<>>

\* the diarizer failed on the second unit; the first keeps its entry
C6_Witness ==
    /\ UnitEnded
    /\ unit = 2
    /\ LastCall = Call("diarize", "fail")
    /\ outcome = <<"ok", "failed">>
    /\ HasEntry(1)
    /\ pc = "range"

\* the diarizer succeeded and returned no turn
NoTurns ==
    /\ calls # <<>>
    /\ LastCall = Call("diarize", "ok")
    /\ diarization_segments = <<>>

(***************************************************************************)
(* C7.  When the diarizer returns no turn, no cut of a turn and no         *)
(* transcription is called (the diarizer's call stays the last one) and    *)
(* the unit completes successfully with an empty result: the batch records *)
(* it as successful and stores its entry, with the empty text, which       *)
(* list.txt then holds; process_audio of the page returns the empty list.  *)
(***************************************************************************)
C7_EmptyDiarizationSucceeds ==
    /\ InBatch /\ NoTurns =>
        \/ pc = "assemble"
        \/ /\ UnitEnded
           /\ outcome[unit] = "ok"
           /\ transcriptions # <<>>
           /\ transcriptions[Len(transcriptions)]
                 = [file |-> UnitFile(unit), transcript |-> <<>>]
           /\ pc \in {"range", "source", "write", "done"}
    /\ InUI /\ NoTurns =>
        \/ pc = "ui_finish" /\ ui_transcriptions = <<>>
        \/ /\ Returned /\ ReturnValue = <<>>
           /\ pc \in {"ui_tail", "ui_returned"}
           /\ st_errors = <<>>

\* the last unit of the batch had no turns, and list.txt ends with its line
C7_Witness ==
    /\ pc = "done"
    /\ NoTurns
    /\ outcome[unit] = "ok"
    /\ Len(indexFile) >= Len(UnitFile(unit)) + 2
    /\ SubSeq(indexFile, Len(indexFile) - Len(UnitFile(unit)) - 1, Len(indexFile))
          = UnitFile(unit) \o <<"|", "\n">>

\* the text the claim describes: "<speaker>: <text>" per turn, one newline between
RECURSIVE ExpectedText(_)
ExpectedText(segs) ==
    IF segs = <<>> THEN <<>>
    ELSE (IF Len(segs) = 1 THEN <<>>
          ELSE ExpectedText(SubSeq(segs, 1, Len(segs) - 1)) \o <<"\n">>)
         \o segs[Len(segs)].speaker \o <<":", " ">>
         \o Transcript(segs[Len(segs)])

(***************************************************************************)
(* C8.  The text stored for a successful unit of the batch is the texts of *)
(* its turns in order, each prefixed with "<speaker>: " and joined with a  *)
(* single newline, without a trailing newline: for the turns (1,3,A),      *)
(* (5,8,B) transcribed as "hello" and "world" it is "A: hello\nB: world".  *)
(***************************************************************************)
C8_AssembledText ==
    UnitEnded /\ outcome[unit] = "ok" =>
        /\ transcriptions # <<>>
        /\ transcriptions[Len(transcriptions)].transcript
              = ExpectedText(diarization_segments)
        /\ diarization_segments = <<TurnA, TurnB>> =>
              transcriptions[Len(transcriptions)].transcript
                 = <<"A", ":", " ", "h", "e", "l", "l", "o", "\n",
                     "B", ":", " ", "w", "o", "r", "l", "d">>

\* a unit with the turns (1,3,A), (5,8,B) has been assembled
C8_Witness ==
    /\ UnitEnded
    /\ outcome[unit] = "ok"
    /\ diarization_segments = <<TurnA, TurnB>>
    /\ transcriptions[Len(transcriptions)].transcript
          = <<"A", ":", " ", "h", "e", "l", "l", "o", "\n",
              "B", ":", " ", "w", "o", "r", "l", "d">>

\* the number of newline-terminated lines of a text
NumLines(text) == Cardinality({k \in 1..Len(text) : text[k] = "\n"})

(***************************************************************************)
(* C9.  As claimed: list.txt holds exactly one newline-terminated line per *)
(* successful unit, also when a unit has two or more turns.                *)
(***************************************************************************)
C9_OneLinePerSuccessfulUnit ==
    pc = "done" => NumLines(indexFile) = NumOk(outcome)

\* the parts of a text between the colons
RECURSIVE SplitColon(_)
SplitColon(text) ==
    IF \A k \in 1..Len(text) : text[k] # ":" THEN <<text>>
    ELSE LET k == CHOOSE j \in 1..Len(text) :
                      text[j] = ":" /\ \A m \in 1..(j - 1) : text[m] # ":"
         IN  <<SubSeq(text, 1, k - 1)>> \o SplitColon(SubSeq(text, k + 1, Len(text)))

\* not of the form [[HH:]MM:]SS[.mmm]: no component, more than three, or a
\* component that is not a non-negative decimal number
Malformed(text) ==
    LET parts == SplitColon(text)
        last  == parts[Len(parts)]
        dot   == {k \in 1..Len(last) : last[k] = "."}
        whole == IF dot = {} THEN last
                 ELSE SubSeq(last, 1, (CHOOSE k \in dot : \A m \in dot : k <= m) - 1)
        frac  == IF dot = {} THEN <<"0">>
                 ELSE SubSeq(last, (CHOOSE k \in dot : \A m \in dot : k <= m) + 1,
                             Len(last))
        Digits(t) == t # <<>> /\ \A k \in 1..Len(t) : IsDigit(t[k])
    IN  ~ /\ Len(parts) \in 1..3
          /\ \A k \in 1..(Len(parts) - 1) : Digits(parts[k])
          /\ Digits(whole)
          /\ Digits(frac)

\* the request of the page has a malformed start, or a non-empty malformed end
UiMalformed ==
    \/ Malformed(request.start_time)
    \/ Truthy(request.end_time) /\ Malformed(request.end_time)

\* nothing was called and nothing was created
Untouched == calls = <<>> /\ disk = {} /\ ntemp = 0

(***************************************************************************)
(* C10.  As claimed: a unit whose start timecode, or supplied (non-empty)  *)
(* end timecode, is malformed is rejected before any adapter is called and *)
(* without creating a file or directory, in the page and in the batch.     *)
(***************************************************************************)
C10_MalformedRejectedEverywhere ==
    /\ InUI /\ UiMalformed => Untouched
    /\ InBatch /\ unit >= 1 /\ Malformed(Units[unit].time_range.start_time)
          => calls = <<>>
             /\ RawPath(Units[unit].time_range.id) \notin disk
             /\ TrimPath(Units[unit].time_range.id) \notin disk

(***************************************************************************)
(* C10, amended.  The button handlers of the Streamlit page reject a       *)
(* request whose start timecode is malformed, or whose end timecode is     *)
(* non-empty and malformed, before any adapter is called and before any    *)
(* temporary file or directory is created.  The batch entry points do not  *)
(* validate timecodes: they call the download or the cut with them.        *)
(***************************************************************************)
C10_PageRejectsMalformed ==
    InUI /\ UiMalformed =>
        /\ Untouched
        /\ pc \in {"ui_start", "ui_rejected"}
        /\ pc = "ui_rejected" => st_errors # <<>>

\* the start time "ab:cd" was rejected by the button handler
C10_Witness ==
    /\ pc = "ui_rejected"
    /\ request.start_time = T_ab_cd
    /\ Malformed(request.start_time)
    /\ Untouched

\* the text given to hms_to_seconds has been parsed, or has raised
Parsed == pc \in {"t_parsed", "t_done"} /\ time_secs # <<>>

(***************************************************************************)
(* C11.  As claimed: hms_to_seconds raises an error, and returns no value, *)
(* on "", "1:2:3:4" and "ab:cd", and on every string that has no component *)
(* or more than three, or a component that is not a non-negative number.   *)
(***************************************************************************)
C11_MalformedRaises ==
    Parsed /\ time_in.of = "text" /\ Malformed(time_in.text)
        => time_secs[1].error # "none"

(***************************************************************************)
(* C12.  For every non-negative duration s, hms_to_seconds of              *)
(* seconds_to_hms(s) is a value, and differs from s by at most one         *)
(* millisecond.                                                            *)
(***************************************************************************)
C12_RoundTripWithinMillisecond ==
    Parsed /\ time_in.of = "seconds" =>
        /\ time_secs[1].error = "none"
        /\ time_secs[1].seconds - time_in.seconds <= Resolution
        /\ time_in.seconds - time_secs[1].seconds <= Resolution

\* 59 min 59.999 s and three quarters of a millisecond came back as one hour
C12_Witness ==
    /\ Parsed
    /\ time_in = [of |-> "seconds",
                  seconds |-> (3599 * 1000 + 999) * Resolution + (Resolution - 1)]
    /\ time_text = <<"0", "0", ":", "5", "9", ":", "6", "0", ".", "0", "0", "0">>
    /\ time_secs[1] = Seconds(3600 * TicksPerSecond)

\* the digits of n, at least `width` of them
RECURSIVE ZeroPadded(_, _)
ZeroPadded(n, width) ==
    IF width <= 1 /\ n < 10 THEN <<Digit(n)>>
    ELSE ZeroPadded(n \div 10, width - 1) \o <<Digit(n % 10)>>

\* HH:MM:SS.mmm of a duration, the milliseconds truncated
TruncatedTimecode(seconds) ==
    LET millis == seconds \div Resolution
    IN  ZeroPadded(millis \div 3600000, 2) \o <<":">>
        \o ZeroPadded((millis \div 60000) % 60, 2) \o <<":">>
        \o ZeroPadded((millis \div 1000) % 60, 2) \o <<".">>
        \o ZeroPadded(millis % 1000, 3)

(***************************************************************************)
(* C13.  As claimed: seconds_to_hms(s) is the zero-padded HH:MM:SS.mmm     *)
(* string of s with the milliseconds truncated, not rounded, so that the   *)
(* seconds field stays below 60.                                           *)
(***************************************************************************)
C13_MillisecondsTruncated ==
    pc = "t_text" /\ time_in.of = "seconds"
        => time_text = TruncatedTimecode(time_in.seconds)

\* the fields of an accepted string: hours (or none), minutes, seconds, fraction
FieldsOf(text) ==
    LET body  == IF text # <<>> /\ text[Len(text)] = "\n"
                 THEN SubSeq(text, 1, Len(text) - 1) ELSE text
        parts == SplitColon(body)
        last  == parts[Len(parts)]
    IN  [hours   |-> IF Len(parts) = 3 THEN parts[1] ELSE <<"0">>,
         minutes |-> parts[Len(parts) - 1],
         seconds |-> SubSeq(last, 1, 2),
         millis  |-> IF Len(last) > 3 THEN SubSeq(last, 4, Len(last)) ELSE <<>>]

\* a field padded with zeros on the left, or (the fraction) on the right
PadLeft(field, width) ==
    [k \in 1..(width - Len(field)) |-> "0"] \o field

PadRight(field, width) ==
    field \o [k \in 1..(width - Len(field)) |-> "0"]

\* the accepted string written out in full
Canonical(text) ==
    LET f == FieldsOf(text)
    IN  PadLeft(f.hours, 2) \o <<":">> \o PadLeft(f.minutes, 2) \o <<":">>
        \o f.seconds \o <<".">> \o PadRight(f.millis, 3)

\* the number a string of one or two digits denotes is at most 59
AtMost59(field) ==
    /\ Len(field) \in 1..2
    /\ \A k \in 1..Len(field) : IsDigit(field[k])
    /\ Len(field) = 2 => field[1] \in {"0", "1", "2", "3", "4", "5"}

(***************************************************************************)
(* C14.  Every string accepted by validate_time_format has its minutes and *)
(* its seconds in 0..59, is parsed by hms_to_seconds without an error, and *)
(* seconds_to_hms of the parsed value is the string itself with its fields *)
(* padded with zeros.                                                      *)
(***************************************************************************)
C14_AcceptedStringsRoundTrip ==
    time_in.of = "text" /\ time_valid = <<TRUE>> =>
        /\ AtMost59(FieldsOf(time_in.text).minutes)
        /\ AtMost59(FieldsOf(time_in.text).seconds)
        /\ Parsed => time_secs[1].error = "none" /\ time_secs[1].seconds >= 0
        /\ pc = "t_done" => time_back = Canonical(time_in.text)

\* "7:05.5" came back as "00:07:05.500"
C14_Witness ==
    /\ pc = "t_done"
    /\ time_valid = <<TRUE>>
    /\ time_in.text = <<"7", ":", "0", "5", ".", "5">>
    /\ time_back = <<"0", "0", ":", "0", "7", ":", "0", "5", ".", "5", "0", "0">>

\* the button handler has ended: it returned (also after a rejection) or raised
HandlerEnded == InUI /\ pc \in {"ui_rejected", "ui_returned", "ui_raised"}

(***************************************************************************)
(* C15.  As claimed: when the request handler of the page has ended,       *)
(* successfully or not, every temporary directory made for the request and *)
(* every file in it has been removed.                                      *)
(***************************************************************************)
C15_TemporariesRemoved == HandlerEnded => disk = {}

InLegacy == kind = "legacy"

\* the lines of the first pipeline's successful units among the first n, in order
RECURSIVE LegacyOkLines(_)
LegacyOkLines(n) ==
    IF n = 0 THEN <<>>
    ELSE LegacyOkLines(n - 1)
         \o (IF outcome[n] = "ok"
             THEN UnitFile(n) \o <<"|">> \o Strip(LegacyWhisperText(n)) \o <<"\n">>
             ELSE <<>>)

\* the run is over: every unit was handled, and list.txt was written once, with
\* the successful units
IndexWritten ==
    /\ Len(outcome) = NumUnits(batch)
    /\ writes = 1
    /\ \/ /\ InBatch
          /\ pc = "done"
          /\ [k \in 1..Len(transcriptions) |-> transcriptions[k].file]
                = OkFiles(Len(outcome))
          /\ indexFile = IndexContent(transcriptions)
       \/ /\ InLegacy
          /\ pc = "lg_done"
          /\ indexFile = LegacyOkLines(Len(outcome))

(***************************************************************************)
(* C16.  Whatever adapter calls fail, a batch run (of the first pipeline,  *)
(* of process_videos, of process_audios) comes to its end and writes       *)
(* list.txt with the units that succeeded: no failure of a download, a     *)
(* cut, the diarizer or the transcriber ends the run before that.          *)
(***************************************************************************)
C16_BatchCompletes == (InBatch \/ InLegacy) ~> IndexWritten

\* the first pipeline wrote its index after a failed download and a failed
\* transcription
C16_Witness ==
    /\ InLegacy
    /\ IndexWritten
    /\ outcome = <<"ok", "failed", "failed">>
    /\ Len(audio_files) = 2

\* the number of transcriptions of the current unit or request that succeeded
NumTranscribed ==
    Len(SelectSeq(calls, LAMBDA c : c = Call("transcribe", "ok")))

(***************************************************************************)
(* C17.  A turn whose transcription succeeds with empty text is kept: the  *)
(* page's process_audio holds one segment per successfully transcribed     *)
(* turn, with the transcriber's stripped text, empty or not; the batch     *)
(* holds one "<speaker>: <text>" string per transcribed turn, "<speaker>: "*)
(* for an empty text.                                                      *)
(***************************************************************************)
C17_EmptyTextKept ==
    /\ InUI =>
        /\ Len(ui_transcriptions) = NumTranscribed
        /\ \A k \in 1..Len(ui_transcriptions) :
              /\ ui_transcriptions[k].text = Strip(WhisperText(TurnOf(ui_transcriptions[k])))
              /\ TurnOf(ui_transcriptions[k]) = TurnQuiet
                    => ui_transcriptions[k].text = <<>>
    /\ InBatch /\ pc \in {"segcut", "transcribe", "assemble"} =>
        /\ Len(speaker_transcriptions) = NumTranscribed
        /\ \A k \in 1..Len(speaker_transcriptions) :
              /\ speaker_transcriptions[k]
                    = diarization_segments[k].speaker \o <<":", " ">>
                      \o Strip(WhisperText(diarization_segments[k]))
              /\ diarization_segments[k] = TurnQuiet
                    => speaker_transcriptions[k] = <<"A", ":", " ">>

\* the page returned the silent turn between two spoken ones, with empty text
C17_Witness ==
    /\ pc = "ui_returned"
    /\ diarization_segments = <<TurnA, TurnQuiet, TurnB>>
    /\ NumTranscribed = 3
    /\ Len(ReturnValue) = 3
    /\ ReturnValue[2] = [speaker |-> <<"A">>, text |-> <<>>, start |-> 8, end |-> 9]

\* the units reached so far whose local source file does not exist
MissingUnits ==
    {u \in 1..unit : Units[u].source.ref \notin disk}

\* the windowed and per-turn artifacts a unit can have
ArtifactsOf(u) ==
    {TrimPath(Units[u].time_range.id)}
    \cup {TrimPath(CompoundId(Units[u].time_range.id, n)) : n \in 0..MaxBatchTurns}

(***************************************************************************)
(* C18.  In process_audios a source whose path is not an existing file is  *)
(* skipped before any cut, diarization or transcription: for each of its   *)
(* time ranges no adapter is called, no entry is stored and no artifact is *)
(* made; and the sources after it are still processed, every unit of an    *)
(* existing source being attempted.                                        *)
(***************************************************************************)
C18_MissingSourceSkipped ==
    kind = "audios" =>
        /\ \A u \in MissingUnits :
              /\ u <= Len(outcome) /\ outcome[u] = "skipped"
              /\ ~HasEntry(u)
              /\ ArtifactsOf(u) \cap disk = {}
              /\ u = unit => calls = <<>>
        /\ pc = "done" =>
              /\ Len(outcome) = NumUnits(batch)
              /\ \A u \in (1..NumUnits(batch)) \ MissingUnits : outcome[u] # "skipped"

\* the first source is missing; the two units of the second one were processed
C18_Witness ==
    /\ kind = "audios"
    /\ pc = "done"
    /\ MissingUnits = {1}
    /\ outcome = <<"skipped", "ok", "ok">>
    /\ [k \in 1..Len(transcriptions) |-> transcriptions[k].file]
          = <<UnitFile(2), UnitFile(3)>>

\* the per-turn artifacts of the units of the batch reached so far
BatchTurnFiles ==
    {TrimPath(CompoundId(Units[u].time_range.id, n)) :
        u \in 1..unit, n \in 0..MaxBatchTurns}

\* the per-turn artifacts of the request of the page
UiTurnFiles ==
    {PathJoin(TempDir(d), SegmentName(n)) : d \in 1..ntemp, n \in 0..MaxTurns}

(***************************************************************************)
(* C19.  As claimed: the per-turn artifact is deleted right after the      *)
(* transcription attempt on it, successful or not, so none exists when the *)
(* cut of the next turn starts, when the unit of the batch has ended, or   *)
(* when the handler of the page has ended.                                 *)
(***************************************************************************)
C19_TurnArtifactReleased ==
    /\ InBatch /\ unit >= 1 /\ (pc = "segcut" \/ UnitEnded) =>
          BatchTurnFiles \cap disk = {}
    /\ InUI /\ (pc = "ui_segcut" \/ HandlerEnded) =>
          UiTurnFiles \cap disk = {}

\* the stages of a unit of the batch after its window has been cut
AfterWindow == pc \in {"diarize", "segcut", "transcribe", "assemble"}

\* the batch and the first pipeline: the raw download of a unit is gone once its
\* window exists, hence during the diarization, the cuts and the transcriptions
RawReleasedAfterWindow ==
    /\ kind = "videos" /\ AfterWindow =>
          /\ RawPath(CurRange.id) \notin disk
          /\ audio_file \in disk
    /\ InLegacy =>
          \A k \in 1..Len(audio_files) :
              LegacyRawPath(Units[UnitOfFile(audio_files[k])].time_range.id) \notin disk

\* the YouTube tab of the page is inside process_audio, after the window cut
UiAfterWindow ==
    /\ InUI
    /\ request.tab = "youtube"
    /\ pc \in {"ui_diarize", "ui_segcut", "ui_transcribe", "ui_finish"}

(***************************************************************************)
(* C20 as claimed: for every remote source, the page's YouTube tab         *)
(* included, the raw download is gone when the unit is diarized, cut into  *)
(* turns and transcribed.                                                  *)
(***************************************************************************)
C20_RawReleasedEverywhere ==
    /\ RawReleasedAfterWindow
    /\ UiAfterWindow => output_file \notin disk

(***************************************************************************)
(* C20, amended.  In the batch and in the first pipeline the raw download  *)
(* is deleted as soon as the window cut has succeeded, so it does not      *)
(* exist during the diarization, the per-turn cuts or the transcriptions   *)
(* of the unit.  On the YouTube tab of the page the download is kept for   *)
(* the whole of process_audio and is deleted only after process_audio has  *)
(* returned.                                                               *)
(***************************************************************************)
C20_RawReleasedInBatchKeptInPage ==
    /\ RawReleasedAfterWindow
    /\ UiAfterWindow => output_file \in disk /\ file_path = output_file
    /\ InUI /\ request.tab = "youtube" /\ pc = "ui_returned" =>
          output_file \notin disk

\* a video's window has just been cut: the download is gone, the window is there
C20_Witness ==
    /\ kind = "videos"
    /\ pc = "diarize"
    /\ calls = <<Call("download", "ok"), Call("trim", "ok")>>
    /\ RawPath(CurRange.id) \notin disk
    /\ TrimPath(CurRange.id) \in disk

\* the source of the current request or batch is remote (acquired by a download)
Remote == kind \in {"videos", "legacy"} \/ (InUI /\ request.tab = "youtube")

\* the k-th adapter call of the current unit may come where it does
InOrder(k) ==
    LET cur  == calls[k]
        prev == calls[k - 1]
    IN  CASE cur.op = "download" -> k = 1 /\ Remote
          [] cur.op = "trim" ->
                IF Remote THEN k = 2 /\ prev = Call("download", "ok") ELSE k = 1
          [] cur.op = "diarize" -> k > 1 /\ prev = Call("trim", "ok")
          [] cur.op = "segcut" ->
                /\ k > 1
                /\ \/ prev \in {Call("diarize", "ok"), Call("transcribe", "ok")}
                   \/ InUI /\ prev = Call("segcut", "fail")
          [] cur.op = "transcribe" ->
                IF InLegacy
                THEN k = 1 /\ i >= 1 /\ audio_files[i] \in disk
                ELSE k > 1 /\ prev = Call("segcut", "ok")
          [] OTHER -> FALSE

\* the calls of the current unit are in the order of the unit's states
StateOrder ==
    /\ \A k \in 1..Len(calls) : InOrder(k)
    /\ Len(ResultsOf("diarize")) <= 1
    /\ ~UnitEnded => Len(ResultsOf("segcut")) <= Len(diarization_segments)
    /\ InBatch /\ pc = "assemble" =>
          /\ \A k \in 1..Len(calls) : calls[k].res = "ok"
          /\ Len(ResultsOf("transcribe")) = Len(diarization_segments)

\* a step starts at most one adapter call: the record of calls grows by one
\* call, stays, or is started afresh for the next unit
OneCallAtATime ==
    \/ calls' = calls
    \/ Len(calls') = Len(calls) + 1 /\ SubSeq(calls', 1, Len(calls)) = calls
    \/ Len(calls') <= 1

(***************************************************************************)
(* C21.  Within one unit the adapters are called in the order of the       *)
(* states: download, window cut, diarization, then per turn the cut and    *)
(* the transcription, then the assembly; the diarizer is called only after *)
(* a successful window cut, the transcriber only after a successful cut of *)
(* the same turn, and every step of the program makes at most one call.    *)
(* (The first pipeline has no diarization: download, window cut, and later *)
(* one transcription per window that exists.)                              *)
(***************************************************************************)
C21_AdapterOrder == []StateOrder /\ [][OneCallAtATime]_vars

\* the page cut three turns: the second cut failed and was passed over
C21_Witness ==
    /\ pc = "ui_returned"
    /\ request.tab = "youtube"
    /\ calls = <<Call("download", "ok"), Call("trim", "ok"), Call("diarize", "ok"),
                 Call("segcut", "ok"), Call("transcribe", "ok"),
                 Call("segcut", "fail"),
                 Call("segcut", "ok"), Call("transcribe", "ok")>>

\* every unit of the batch has finished: it succeeded, failed or was skipped
AllUnitsFinished ==
    /\ Len(outcome) = NumUnits(batch)
    /\ \A u \in 1..Len(outcome) : outcome[u] \in {"ok", "failed", "skipped"}

\* the run of the batch or of the first pipeline is over
RunOver == pc \in {"done", "lg_done"}

(***************************************************************************)
(* C22.  The index file is written exactly once per run of the batch, and  *)
(* only after every unit has finished: nothing is in the index while a     *)
(* unit is still unprocessed, and a finished run has written it once.      *)
(***************************************************************************)
C22_IndexWrittenOnceAtEnd ==
    InBatch \/ InLegacy =>
        /\ writes <= 1
        /\ writes = 0 <=> indexFile = None
        /\ writes = 0 <=> ~RunOver
        /\ writes = 1 => AllUnitsFinished

\* a finished run with a failed unit between two successful ones
C22_Witness ==
    /\ InBatch
    /\ RunOver
    /\ writes = 1
    /\ outcome = <<"ok", "failed", "ok">>
    /\ indexFile = IndexContent(transcriptions)
    /\ Len(transcriptions) = 2

\* the ids of the ranges of the batch
RangeIds == {Units[u].time_range.id : u \in 1..NumUnits(batch)}

\* the windowed and raw artifact paths of all units of the batch
UnitPaths == {TrimPath(id) : id \in RangeIds} \cup {RawPath(id) : id \in RangeIds}

\* the per-turn paths of all (range id, turn) pairs but the current one
OtherTurnPaths ==
    {TrimPath(CompoundId(Units[u].time_range.id, n)) :
        u \in 1..NumUnits(batch), n \in 0..MaxBatchTurns}
    \ {TrimPath(CompoundId(Units[unit].time_range.id, i))}

\* the per-turn artifact just cut has the compound name, and its path is that of
\* no other turn and of no unit's windowed or raw artifact
TurnPathDisjoint ==
    /\ segment_file = TrimPath(CompoundId(CurRange.id, i))
    /\ segment_file \notin OtherTurnPaths
    /\ segment_file \notin UnitPaths

\* the text of an id that is an int, as TimeRange declares
IntegerId(id) == id # <<>> /\ AllDigits(id)

BarOf(line) == CHOOSE k \in 1..Len(line) :
                    line[k] = "|" /\ \A j \in 1..(k - 1) : line[j] # "|"

\* the audio path an index line of the first pipeline records, made absolute
\* again (the text before the bar, without the leading "../")
LinePath(line) == SubSeq(line, 2, BarOf(line) - 1)

\* the audio path an entry of the batch records, made absolute again
EntryPath(entry) == Tail(entry.file)

\* the first pipeline: every recorded path is that of a file on disk
LegacyIndexedAudioExists ==
    pc = "lg_done" =>
        /\ indexFile = LegacyContent(file_and_transcripts)
        /\ \A k \in 1..Len(file_and_transcripts) :
              /\ LinePath(file_and_transcripts[k]) \in disk
              /\ LinePath(file_and_transcripts[k]) \in
                    {audio_files[j] : j \in 1..Len(audio_files)}

(***************************************************************************)
(* C24 as claimed: when a batch has written the index, the audio file of   *)
(* every index entry is on disk, in the first pipeline and in              *)
(* process_videos / process_audios alike.                                  *)
(***************************************************************************)
C24_IndexedAudioExists ==
    /\ LegacyIndexedAudioExists
    /\ InBatch /\ pc = "done" =>
          \A k \in 1..Len(transcriptions) : EntryPath(transcriptions[k]) \in disk

(***************************************************************************)
(* C24, amended.  In the first pipeline (main_standalone.py) every path    *)
(* recorded in the index is that of a windowed file that exists when the   *)
(* index is written.  In process_videos and process_audios the windowed    *)
(* file of an entry is deleted right after the entry is stored, so when    *)
(* the index is written none of the recorded files exists.                 *)
(***************************************************************************)
C24_IndexedAudioExistsInFirstPipelineOnly ==
    /\ LegacyIndexedAudioExists
    /\ InBatch /\ pc = "done" =>
          /\ indexFile = IndexContent(transcriptions)
          /\ \A k \in 1..Len(transcriptions) :
                EntryPath(transcriptions[k]) \notin disk
    /\ InBatch =>
          \A k \in 1..Len(transcriptions) :
              EntryPath(transcriptions[k]) \in
                  {TrimPath(Units[u].time_range.id) : u \in 1..unit}

\* the first pipeline wrote two lines, and both windowed files are on disk
C24_Witness ==
    /\ pc = "lg_done"
    /\ Len(file_and_transcripts) = 2
    /\ {LinePath(file_and_transcripts[k]) : k \in 1..2}
          = {TrimPath(Str(1)), TrimPath(Str(3))}
    /\ {TrimPath(Str(1)), TrimPath(Str(3))} \subseteq disk

\* the handler ended by an exception
Raised == InUI /\ pc = "ui_raised"

(***************************************************************************)
(* C25.  As claimed: the outcome of a request is decided by the request    *)
(* and the outcomes of the adapters, not by which of the two pages served  *)
(* it.  The two handlers share every step up to the tail of main(); so     *)
(* either raises exactly when the transcriber raised, and when the YouTube *)
(* download failed both end without raising, nothing transcribed and       *)
(* nothing downloaded left behind.                                         *)
(***************************************************************************)
C25_HandlersAgree ==
    HandlerEnded =>
        /\ Raised <=> calls # <<>> /\ LastCall = Call("transcribe", "fail")
        /\ request.tab = "youtube" /\ Failed("download") =>
              /\ ~Raised
              /\ ~Returned
              /\ output_file \notin disk

\* the strictly increasing maps from the positions of a result of n segments
\* into the positions of a list of m turns
Embeddings(n, m) ==
    {f \in [1..n -> 1..m] : \A a \in 1..n : \A b \in 1..n : a < b => f[a] < f[b]}

(***************************************************************************)
(* C26.  Whenever process_audio of the page returns, its result is an      *)
(* order-preserving subsequence of the diarizer's list of turns: every     *)
(* segment carries the speaker, start and end of one turn unchanged and    *)
(* the (stripped) text of that turn, no turn gives two segments, and a     *)
(* turn has no segment only if its cut failed.                             *)
(***************************************************************************)
C26_ResultIsSubsequenceOfTurns ==
    Returned =>
        \E f \in Embeddings(Len(ReturnValue), Len(diarization_segments)) :
            /\ \A k \in 1..Len(ReturnValue) :
                  /\ TurnOf(ReturnValue[k]) = diarization_segments[f[k]]
                  /\ ReturnValue[k].text = Transcript(diarization_segments[f[k]])
                  /\ DOMAIN ReturnValue[k] = {"speaker", "text", "start", "end"}
            /\ \A j \in 1..Len(diarization_segments) :
                  (\A k \in 1..Len(ReturnValue) : f[k] # j) =>
                      /\ j <= Len(ResultsOf("segcut"))
                      /\ ResultsOf("segcut")[j] = Call("segcut", "fail")

\* the diarizer gave the same turn twice and the cut of the second failed
C26_Witness ==
    /\ pc = "ui_returned"
    /\ diarization_segments = <<TurnA, TurnA, TurnB>>
    /\ ResultsOf("segcut")
          = <<Call("segcut", "ok"), Call("segcut", "fail"), Call("segcut", "ok")>>
    /\ ReturnValue = <<SegmentRecord(TurnA, Transcript(TurnA)),
                       SegmentRecord(TurnB, Transcript(TurnB))>>

====
